---- MODULE Spec2Model ----
(***************************************************************************)
(* Model of the analytics layer of the Superstore BI API                   *)
(* (src/backend/main.py).  The module-level store df is a table of order   *)
(* lines; every request handler reads df and produces a response.  Money   *)
(* amounts are integers (one unit of currency, or one cent where a family  *)
(* of tables says so); every float the handlers compute is kept as an      *)
(* exact fraction, with the two infinities and NaN of IEEE division.       *)
(***************************************************************************)
EXTENDS Integers, Sequences, FiniteSets, TLC

VARIABLES df,    \* the module-level DataFrame: a sequence of rows
          resp   \* the response of the request handled last

vars == <<df, resp>>

----------------------------------------------------------------------------
(* Floats as fractions n/d with d >= 0.  d = 0 encodes the results of a   *)
(* division by zero: n > 0 is +inf, n < 0 is -inf, n = 0 is NaN.           *)

Sgn(x) == IF x > 0 THEN 1 ELSE IF x < 0 THEN -1 ELSE 0

Abs(x) == IF x < 0 THEN -x ELSE x

RECURSIVE Gcd(_, _)
Gcd(a, b) == IF b = 0 THEN a ELSE Gcd(b, a % b)

\* numpy / pandas true division of two numbers: never raises.  The fraction
\* is kept in lowest terms, so equal values are equal records
Frac(num, den) ==
    IF den = 0 THEN [n |-> Sgn(num), d |-> 0]
    ELSE LET g == Gcd(Abs(num), Abs(den))
         IN  [n |-> (num * Sgn(den)) \div g, d |-> Abs(den) \div g]

FromInt(k) == [n |-> k, d |-> 1]

Zero == FromInt(0)

IsNaN(x) == x.d = 0 /\ x.n = 0

IsInf(x) == x.d = 0 /\ x.n # 0

IsFinite(x) == x.d > 0

\* x * k for an integer k (inf * 0 is NaN, as in IEEE)
MulInt(x, k) == IF x.d = 0 THEN [n |-> Sgn(x.n * k), d |-> 0]
                ELSE LET g == Gcd(Abs(k), x.d)
                     IN  [n |-> x.n * (k \div g), d |-> x.d \div g]

\* x / k for an integer k
DivInt(x, k) ==
    IF x.d = 0 THEN (IF k = 0 THEN [n |-> x.n, d |-> 0]
                     ELSE [n |-> x.n * Sgn(k), d |-> 0])
    ELSE IF k = 0 THEN [n |-> Sgn(x.n), d |-> 0]
    ELSE LET g == Gcd(Abs(x.n), Abs(k))
         IN  [n |-> (x.n \div g) * Sgn(k), d |-> x.d * (Abs(k) \div g)]

\* x + y and x - y of finite values
Add(x, y) ==
    IF x.d = 0 /\ y.d = 0 THEN [n |-> IF x.n = y.n THEN x.n ELSE 0, d |-> 0]
    ELSE IF x.d = 0 THEN x
    ELSE IF y.d = 0 THEN y
    ELSE LET g == Gcd(x.d, y.d)
         IN  Frac(x.n * (y.d \div g) + y.n * (x.d \div g), (x.d \div g) * y.d)

Sub(x, y) == Add(x, [n |-> -y.n, d |-> y.d])

\* comparisons: every comparison with NaN is false; two finite values are
\* compared by their integer parts, then by their fractional parts
Lt(x, y) == /\ ~IsNaN(x)
            /\ ~IsNaN(y)
            /\ IF x.d = 0 /\ y.d = 0 THEN x.n < y.n
               ELSE IF x.d = 0 THEN x.n < 0
               ELSE IF y.d = 0 THEN y.n > 0
               ELSE IF x.n \div x.d # y.n \div y.d THEN x.n \div x.d < y.n \div y.d
               ELSE (x.n % x.d) * y.d < (y.n % y.d) * x.d

Eq(x, y) == /\ ~IsNaN(x)
            /\ ~IsNaN(y)
            /\ IF x.d = 0 \/ y.d = 0 THEN x.d = y.d /\ x.n = y.n
               ELSE x = y

Le(x, y) == Lt(x, y) \/ Eq(x, y)

Ge(x, y) == Le(y, x)

Gt(x, y) == Lt(y, x)

\* the idiom  .replace([np.inf, -np.inf], 0).fillna(0)
ReplaceInfFillna(x) == IF x.d = 0 THEN Zero ELSE x

Pow10(k) == IF k = 0 THEN 1 ELSE IF k = 1 THEN 10 ELSE IF k = 2 THEN 100
            ELSE IF k = 3 THEN 1000 ELSE 10000

\* round(x, k): to k decimals, a tie going to the even neighbour; inf and
\* NaN are returned as they are
Round(x, k) ==
    IF x.d = 0 THEN x
    ELSE LET ip == x.n \div x.d
             s == (x.n % x.d) * Pow10(k)
             q == ip * Pow10(k) + s \div x.d
             r == s % x.d
             up == \/ 2 * r > x.d
                   \/ 2 * r = x.d /\ q % 2 = 1
         IN  Frac(IF up THEN q + 1 ELSE q, Pow10(k))

----------------------------------------------------------------------------
(* Sequences.                                                              *)

Range(s) == {s[i] : i \in 1..Len(s)}

\* the elements of s that satisfy Keep, in the order of s
Filter(s, Keep(_)) == SelectSeq(s, Keep)

\* sum of V(s[i]) over a sequence
SumSeq(s, V(_)) ==
    LET acc[k \in 0..Len(s)] == IF k = 0 THEN 0 ELSE acc[k - 1] + V(s[k])
    IN  acc[Len(s)]

\* a stable sort: x goes before y iff Before(x, y); elements that Before
\* does not order keep the order they have in s
SortBy(s, Before(_, _)) ==
    LET ins[k \in 0..Len(s)] ==
            IF k = 0 THEN <<>>
            ELSE LET prev == ins[k - 1]
                     x == s[k]
                     n == Cardinality({i \in 1..Len(prev) : ~Before(x, prev[i])})
                 IN  SubSeq(prev, 1, n) \o <<x>> \o SubSeq(prev, n + 1, Len(prev))
    IN  ins[Len(s)]

\* the elements of a finite set, in the order Before (a strict total order)
SetToSeq(S, Before(_, _)) ==
    LET n == Cardinality(S)
    IN  [i \in 1..n |->
            CHOOSE x \in S : Cardinality({y \in S : Before(y, x)}) = i - 1]

MinOf(a, b) == IF a <= b THEN a ELSE b

\* s[1..n], or all of s when it is shorter: DataFrame.head(n), list[:n]
Head_(s, n) == IF Len(s) <= n THEN s ELSE SubSeq(s, 1, n)

----------------------------------------------------------------------------
(* Dates are day numbers counted from 1970-01-01, as the difference of two *)
(* pandas Timestamps in days; Year and Month follow the civil calendar.    *)

DaysFromCivil(y, m, d) ==
    LET yy == IF m <= 2 THEN y - 1 ELSE y
        era == yy \div 400
        yoe == yy - era * 400
        mp == IF m > 2 THEN m - 3 ELSE m + 9
        doy == (153 * mp + 2) \div 5 + d - 1
        doe == yoe * 365 + yoe \div 4 - yoe \div 100 + doy
    IN  era * 146097 + doe - 719468

CivilFromDays(z0) ==
    LET z == z0 + 719468
        era == z \div 146097
        doe == z - era * 146097
        yoe == (doe - doe \div 1460 + doe \div 36524 - doe \div 146096) \div 365
        doy == doe - (365 * yoe + yoe \div 4 - yoe \div 100)
        mp == (5 * doy + 2) \div 153
        d == doy - (153 * mp + 2) \div 5 + 1
        m == IF mp < 10 THEN mp + 3 ELSE mp - 9
        y == yoe + era * 400 + (IF m <= 2 THEN 1 ELSE 0)
    IN  [y |-> y, m |-> m, d |-> d]

\* df['Order Date'].dt.year and .dt.month
YearOf(date) == CivilFromDays(date).y

MonthOf(date) == CivilFromDays(date).m

----------------------------------------------------------------------------
(* Rows of the store.  The text columns are strings; groupby sorts its     *)
(* keys, so the strings that occur are given their lexicographic rank.     *)

StrRank(s) ==
    CASE s = "Chairs" -> 1
      [] s = "Consumer" -> 2
      [] s = "Corporate" -> 3
      [] s = "East" -> 4
      [] s = "First Class" -> 5
      [] s = "Furniture" -> 6
      [] s = "Office Supplies" -> 7
      [] s = "Overnight" -> 8
      [] s = "Paper" -> 9
      [] s = "Phones" -> 10
      [] s = "Same Day" -> 11
      [] s = "Second Class" -> 12
      [] s = "Standard Class" -> 13
      [] s = "Technology" -> 14
      [] s = "West" -> 15

\* an order line with every column the handlers read; the families of
\* tables below vary the columns their handlers depend on
BaseRow ==
    [oid |-> 1, cid |-> 1, odate |-> DaysFromCivil(2017, 6, 1),
     sdate |-> DaysFromCivil(2017, 6, 3), mode |-> "Standard Class",
     prod |-> 1, cat |-> "Furniture", subcat |-> "Chairs",
     region |-> "East", segment |-> "Consumer", city |-> 1, state |-> 1,
     sales |-> 10, qty |-> 2, disc |-> 0, profit |-> 3]

Sales(r) == r.sales

Profit(r) == r.profit

Quantity(r) == r.qty

----------------------------------------------------------------------------
(* Aggregation: groupby(...).agg(sum / nunique).                           *)

\* the rows of table t that satisfy In
RowsWhere(t, In(_)) == SelectSeq(t, In)

\* Series.median(), np.median: the middle of the sorted values, the mean of
\* the two middle values for an even count, NaN for no value
Median(s) ==
    LET srt == SortBy(s, Lt)
        n == Len(s)
    IN  IF n = 0 THEN Frac(0, 0)
        ELSE IF n % 2 = 1 THEN srt[(n + 1) \div 2]
        ELSE DivInt(Add(srt[n \div 2], srt[n \div 2 + 1]), 2)

----------------------------------------------------------------------------
(* GET /kpi/produits/bcg                                                   *)

\* the years of the table and the year before the first of them
YearsWithYearBefore(t) ==
    LET ys == {YearOf(t[i].odate) : i \in 1..Len(t)}
    IN  SetToSeq(ys \cup {y - 1 : y \in ys}, LAMBDA a, b : a < b)

\* sorted(df['Year'].unique())
Years(t) == SetToSeq({YearOf(t[i].odate) : i \in 1..Len(t)},
                     LAMBDA a, b : a < b)

\* the index of the pivot: (Product Name, Category, Sub-Category)
ProductKey(r) == [prod |-> r.prod, cat |-> r.cat, subcat |-> r.subcat]

ProductKeyBefore(a, b) ==
    \/ a.prod < b.prod
    \/ a.prod = b.prod /\ StrRank(a.cat) < StrRank(b.cat)
    \/ a.prod = b.prod /\ a.cat = b.cat /\ StrRank(a.subcat) < StrRank(b.subcat)

\* the cell (key, year) of ca_pivot for one measure: the group's sum, or the
\* fill_value 0 when the product has no row in that year
PivotCell(t, key, year, V(_)) ==
    SumSeq(RowsWhere(t, LAMBDA r : ProductKey(r) = key /\ YearOf(r.odate) = year), V)

\* the growth without the new-product rule
CroissanceNoNewRule(ca_last, ca_prev) ==
    IF ca_prev > 0 THEN Frac((ca_last - ca_prev) * 100, ca_prev) ELSE Zero

\* lines 270-276: growth of a product from ca_prev to ca_last
Croissance(ca_last, ca_prev) ==
    IF ca_prev > 0 THEN Frac((ca_last - ca_prev) * 100, ca_prev)
    ELSE IF ca_last > 0 THEN FromInt(100)
    ELSE Zero

\* line 279: market share in the last year
PartMarche(ca_last, ca_total_last_year) ==
    IF ca_total_last_year > 0 THEN Frac(ca_last * 100, ca_total_last_year)
    ELSE Zero

\* line 282
MargeBcg(profit_last, ca_last) ==
    IF ca_last > 0 THEN Frac(profit_last * 100, ca_last) ELSE Zero

\* line 285
RotationBcg(qty_last, ca_last) ==
    IF ca_last > 0 THEN Frac(qty_last * 1000, ca_last) ELSE Zero

\* the quadrants with a market share of exactly 0.5 counted as low
QuadrantStrictShare(part_marche, croissance) ==
    IF Gt(part_marche, Frac(1, 2)) /\ Ge(croissance, FromInt(10)) THEN "Etoile"
    ELSE IF Gt(part_marche, Frac(1, 2)) /\ Lt(croissance, FromInt(10))
        THEN "Vache a lait"
    ELSE IF Le(part_marche, Frac(1, 2)) /\ Ge(croissance, FromInt(10))
        THEN "Dilemme"
    ELSE "Poids mort"

\* lines 289-297: the quadrant of a product
Quadrant(part_marche, croissance) ==
    IF Ge(part_marche, Frac(1, 2)) /\ Ge(croissance, FromInt(10)) THEN "Etoile"
    ELSE IF Ge(part_marche, Frac(1, 2)) /\ Lt(croissance, FromInt(10))
        THEN "Vache a lait"
    ELSE IF Lt(part_marche, Frac(1, 2)) /\ Ge(croissance, FromInt(10))
        THEN "Dilemme"
    ELSE "Poids mort"

\* lines 264-311: the record of one row of ca_pivot; loc holds the loop's
\* unrounded locals, the other fields are the values appended to result
BcgRecord(t, key, last_year, prev_year, ca_total_last_year) ==
    LET ca_last == PivotCell(t, key, last_year, Sales)
        ca_prev == PivotCell(t, key, prev_year, Sales)
        profit_last == PivotCell(t, key, last_year, Profit)
        qty_last == PivotCell(t, key, last_year, Quantity)
        croissance == Croissance(ca_last, ca_prev)
        part_marche == PartMarche(ca_last, ca_total_last_year)
        marge == MargeBcg(profit_last, ca_last)
        rotation == RotationBcg(qty_last, ca_last)
    IN  [produit |-> key.prod, categorie |-> key.cat, sous_categorie |-> key.subcat,
         ca_actuel |-> Round(FromInt(ca_last), 2),
         ca_precedent |-> Round(FromInt(ca_prev), 2),
         part_marche |-> Round(part_marche, 4),
         croissance |-> Round(croissance, 2),
         profit |-> Round(FromInt(profit_last), 2),
         marge_pct |-> Round(marge, 2),
         rotation |-> Round(rotation, 4),
         quadrant |-> Quadrant(part_marche, croissance),
         loc |-> [ca_last |-> ca_last, ca_prev |-> ca_prev,
                  croissance |-> croissance, part_marche |-> part_marche,
                  marge |-> marge, rotation |-> rotation]]

\* the body of get_bcg_matrix on table t
BcgMatrix(t, limite) ==
    LET years == Years(t)
    IN  IF Len(years) < 2
        THEN [endpoint |-> "get_bcg_matrix", limite |-> limite,
              error |-> "Pas assez d'annees", data |-> <<>>]
        ELSE
        LET last_year == years[Len(years)]
            prev_year == years[Len(years) - 1]
            index == SetToSeq({ProductKey(t[i]) : i \in 1..Len(t)}, ProductKeyBefore)
            ca_total_last_year ==
                SumSeq(RowsWhere(t, LAMBDA r : YearOf(r.odate) = last_year), Sales)
            all == [i \in 1..Len(index) |->
                       BcgRecord(t, index[i], last_year, prev_year, ca_total_last_year)]
            result == Head_(SortBy(all, LAMBDA x, y : Gt(x.ca_actuel, y.ca_actuel)),
                            limite)
            sold == Filter(result, LAMBDA r : Gt(r.ca_actuel, Zero))
            parts == [i \in 1..Len(sold) |-> sold[i].part_marche]
            croissances == [i \in 1..Len(sold) |-> sold[i].croissance]
            count(q) == Len(Filter(result, LAMBDA r : r.quadrant = q))
        IN  [endpoint |-> "get_bcg_matrix", limite |-> limite,
             error |-> "", data |-> result,
             seuils |-> [part_marche_mediane |->
                             IF parts = <<>> THEN Zero ELSE Round(Median(parts), 4),
                         croissance_mediane |->
                             IF croissances = <<>> THEN Zero
                             ELSE Round(Median(croissances), 2),
                         annee_actuelle |-> last_year,
                         annee_precedente |-> prev_year],
             repartition |-> [etoiles |-> count("Etoile"),
                              vaches |-> count("Vache a lait"),
                              dilemmes |-> count("Dilemme"),
                              poids_morts |-> count("Poids mort")]]

\* limite: int = Query(50, ge=10, le=200); the values requested here
LimitesBcg == {10, 50}

get_bcg_matrix ==
    \E limite \in LimitesBcg :
        /\ resp' = BcgMatrix(df, limite)
        /\ UNCHANGED df

----------------------------------------------------------------------------
(* Tables for the BCG matrix: a table holds at most one order line per     *)
(* product and year, with the sales amount drawn from BcgSales.            *)

NProducts == 2

BcgProducts == 1..NProducts

BcgDates == <<DaysFromCivil(2016, 3, 15), DaysFromCivil(2017, 3, 15)>>

\* no order line for that product in that year
Absent == 0 - 1

\* what a product sells in a year: nothing at all, or one order line of
\* that amount (1 in 200 is a market share of exactly 0.5 %, 10 -> 11 is a
\* growth of exactly 10 %)
BcgSales(p) == IF p % 2 = 1 THEN {Absent, 0, 1, 10, 11}
               ELSE {Absent, 10, 199, 200}

BcgCells == SetToSeq(BcgProducts \X (1..Len(BcgDates)),
                     LAMBDA a, b : a[1] < b[1] \/ (a[1] = b[1] /\ a[2] < b[2]))

BcgRow(cell, v) ==
    [BaseRow EXCEPT !.prod = cell[1], !.oid = 10 * cell[1] + cell[2],
                    !.cid = cell[1],
                    !.cat = IF cell[1] % 2 = 1 THEN "Furniture" ELSE "Technology",
                    !.subcat = IF cell[1] % 2 = 1 THEN "Chairs" ELSE "Phones",
                    !.odate = BcgDates[cell[2]], !.sales = v]

\* an order line of product 1 two years before the last year
OldRow == [BaseRow EXCEPT !.odate = DaysFromCivil(2015, 3, 15), !.oid = 5]

BcgTable(f, old) ==
    LET present == SelectSeq(BcgCells, LAMBDA c : f[c] # Absent)
    IN  (IF old THEN <<OldRow>> ELSE <<>>)
        \o [i \in 1..Len(present) |-> BcgRow(present[i], f[present[i]])]

NoResponse == [endpoint |-> "none"]

InitBCG ==
    /\ \E f \in [Range(BcgCells) -> UNION {BcgSales(p) : p \in BcgProducts}],
          old \in BOOLEAN :
           /\ \A c \in Range(BcgCells) : f[c] \in BcgSales(c[1])
           /\ df = BcgTable(f, old)
    /\ resp = NoResponse

NextBCG == get_bcg_matrix

SpecBCG == InitBCG /\ [][NextBCG]_vars

----------------------------------------------------------------------------
(* GET /kpi/analyse-abc                                                    *)

RECURSIVE DescendingOrders(_, _)
\* the arrangements of the positions R in which the keys do not increase
DescendingOrders(keys, R) ==
    IF R = {} THEN {<<>>}
    ELSE UNION {{<<i>> \o rest : rest \in DescendingOrders(keys, R \ {i})} :
                   i \in {j \in R : \A m \in R : keys[j] >= keys[m]}}

\* DataFrame.sort_values(col, ascending=False) with the default
\* kind='quicksort', which is not stable: every arrangement of s in
\* non-increasing order of Key is a possible outcome
SortValuesDesc(s, Key(_)) ==
    LET keys == [i \in 1..Len(s) |-> Key(s[i])]
    IN  {[i \in 1..Len(s) |-> s[g[i]]] : g \in DescendingOrders(keys, 1..Len(s))}

\* the grouping key of a row at each level (the customer name goes with the
\* customer ID and is not kept apart)
AbcKey(niveau, r) ==
    IF niveau = "produit" THEN <<r.prod, StrRank(r.cat)>>
    ELSE IF niveau = "categorie" THEN <<0, StrRank(r.cat)>>
    ELSE <<r.cid, 0>>

AbcKeyBefore(a, b) == a[1] < b[1] \/ (a[1] = b[1] /\ a[2] < b[2])

\* lines 1141-1148, 1169-1177, 1197-1205: one record per group, in key order
AbcGroups(t, niveau) ==
    LET keys == SetToSeq({AbcKey(niveau, t[i]) : i \in 1..Len(t)}, AbcKeyBefore)
        rows(k) == RowsWhere(t, LAMBDA r : AbcKey(niveau, r) = k)
    IN  [i \in 1..Len(keys) |->
            [nom |-> IF niveau = "categorie" THEN rows(keys[i])[1].cat
                     ELSE keys[i][1],
             categorie |-> IF niveau = "client" THEN "Client"
                           ELSE rows(keys[i])[1].cat,
             ca |-> SumSeq(rows(keys[i]), Sales),
             profit |-> SumSeq(rows(keys[i]), Profit)]]

\* the class with the boundaries exclusive
classify_abc_strict(pct) ==
    IF Lt(pct, FromInt(80)) THEN "A"
    ELSE IF Lt(pct, FromInt(95)) THEN "B"
    ELSE "C"

\* lines 1157-1163, 1185-1191, 1213-1219
classify_abc(pct) ==
    IF Le(pct, FromInt(80)) THEN "A"
    ELSE IF Le(pct, FromInt(95)) THEN "B"
    ELSE "C"

\* lines 1150-1165: the cumulative columns and the class of the sorted data
AbcClassified(data) ==
    LET ca_cumul[k \in 0..Len(data)] ==
            IF k = 0 THEN 0 ELSE ca_cumul[k - 1] + data[k].ca
        ca_total == ca_cumul[Len(data)]
    IN  [i \in 1..Len(data) |->
            LET pct_cumul == Round(Frac(ca_cumul[i] * 100, ca_total), 2)
            IN  [nom |-> data[i].nom, categorie |-> data[i].categorie,
                 ca |-> Round(FromInt(data[i].ca), 2),
                 profit |-> Round(FromInt(data[i].profit), 2),
                 pct_ca |-> Round(Frac(data[i].ca * 100, ca_total), 2),
                 pct_cumul |-> pct_cumul,
                 classe |-> classify_abc(pct_cumul)]]

\* lines 1223-1232: stats_classes, one record per class that occurs
AbcParClasse(data, ca_total) ==
    LET present == SelectSeq(<<"A", "B", "C">>,
                             LAMBDA c : \E i \in 1..Len(data) : data[i].classe = c)
        of(c) == SelectSeq(data, LAMBDA r : r.classe = c)
        sum(c) == SumSeq(of(c), LAMBDA r : r.ca.n)
    IN  [i \in 1..Len(present) |->
            [classe |-> present[i],
             nombre |-> Len(of(present[i])),
             ca_total |-> sum(present[i]),
             profit_total |-> SumSeq(of(present[i]), LAMBDA r : r.profit.n),
             pct_nombre |-> Round(Frac(Len(of(present[i])) * 100, Len(data)), 2),
             pct_ca |-> Round(Frac(sum(present[i]) * 100, ca_total), 2)]]

\* the response of get_analyse_abc for the sorted groups
AbcResponse(niveau, sorted) ==
    LET data == AbcClassified(sorted)
        ca_total == SumSeq(sorted, LAMBDA r : r.ca)
    IN  [endpoint |-> "get_analyse_abc", niveau |-> niveau, data |-> data,
         statistiques |-> [total_elements |-> Len(data),
                           ca_total |-> Round(FromInt(ca_total), 2)],
         par_classe |-> AbcParClasse(data, ca_total)]

\* niveau: Query("produit", regex="^(produit|categorie|client)$")
Niveaux == {"produit", "categorie", "client"}

get_analyse_abc ==
    \E niveau \in Niveaux :
        \E sorted \in SortValuesDesc(AbcGroups(df, niveau), LAMBDA r : r.ca) :
            /\ resp' = AbcResponse(niveau, sorted)
            /\ UNCHANGED df

----------------------------------------------------------------------------
(* Tables for the ABC analysis: at most one order line per product, the    *)
(* amounts in cents.  80 + 15 + 5 puts the cumulative percentages on the   *)
(* two boundaries; 20001 + 4999 and 23751 + 1249 put them at 80.004 and    *)
(* 95.004.                                                                 *)

NAbcProducts == 3

AbcSales(p) ==
    IF p % 3 = 1 THEN {Absent, 0, 80, 90, 20001, 23751}
    ELSE IF p % 3 = 2 THEN {Absent, 0, 15, 80, 1249, 4999}
    ELSE {Absent, 5, 10, 15}

\* products 1 and 3 are Furniture, product 2 is Technology; customer 1 buys
\* products 1 and 2, customer 2 buys products 3 and 4
AbcRow(p, v) ==
    [BaseRow EXCEPT !.prod = p, !.oid = p, !.cid = (p + 1) \div 2,
                    !.cat = IF p % 2 = 1 THEN "Furniture" ELSE "Technology",
                    !.subcat = IF p % 2 = 1 THEN "Chairs" ELSE "Phones",
                    !.sales = v]

AbcTable(f) ==
    LET present == SelectSeq([p \in 1..NAbcProducts |-> p], LAMBDA p : f[p] # Absent)
    IN  [i \in 1..Len(present) |-> AbcRow(present[i], f[present[i]])]

InitABC ==
    /\ \E f \in [1..NAbcProducts -> UNION {AbcSales(p) : p \in 1..NAbcProducts}] :
           /\ \A p \in 1..NAbcProducts : f[p] \in AbcSales(p)
           /\ df = AbcTable(f)
    /\ resp = NoResponse

NextABC == get_analyse_abc

SpecABC == InitABC /\ [][NextABC]_vars

----------------------------------------------------------------------------
(* GET /kpi/clients/rfm: the decision table of the segments.               *)

\* the table with the test for big spenders moved before the test for lost
\* customers
segment_client_reordered(row) ==
    LET r == row.r_score
        f == row.f_score
        m == row.m_score
    IN  IF r >= 4 /\ f >= 4 /\ m >= 4 THEN "Champions"
        ELSE IF r >= 3 /\ f >= 3 /\ m >= 3 THEN "Fideles"
        ELSE IF r >= 4 /\ f <= 2 THEN "Nouveaux"
        ELSE IF r <= 2 /\ f >= 3 THEN "A risque"
        ELSE IF m >= 4 THEN "Gros depensiers"
        ELSE IF r <= 2 /\ f <= 2 THEN "Perdus"
        ELSE "Occasionnels"

\* lines 800-816
segment_client(row) ==
    LET r == row.r_score
        f == row.f_score
        m == row.m_score
    IN  IF r >= 4 /\ f >= 4 /\ m >= 4 THEN "Champions"
        ELSE IF r >= 3 /\ f >= 3 /\ m >= 3 THEN "Fideles"
        ELSE IF r >= 4 /\ f <= 2 THEN "Nouveaux"
        ELSE IF r <= 2 /\ f >= 3 THEN "A risque"
        ELSE IF r <= 2 /\ f <= 2 THEN "Perdus"
        ELSE IF m >= 4 THEN "Gros depensiers"
        ELSE "Occasionnels"

\* the labels of qcut: the scores a row of rfm can hold
Scores == 1..5

ScoreRows == [r_score : Scores, f_score : Scores, m_score : Scores]

\* line 818, for one row of rfm: rfm.apply(segment_client, axis=1)
apply_segment_client ==
    /\ resp.endpoint = "segment_client"
    /\ resp.segment = ""
    /\ resp' = [resp EXCEPT !.segment = segment_client(resp.row)]
    /\ UNCHANGED df

\* a row of rfm with any three scores, before its segment is computed
InitSegment ==
    /\ df = <<>>
    /\ \E row \in ScoreRows :
           resp = [endpoint |-> "segment_client", row |-> row, segment |-> ""]

NextSegment == apply_segment_client

SpecSegment == InitSegment /\ [][NextSegment]_vars

----------------------------------------------------------------------------
(* GET /kpi/clients/rfm                                                    *)

\* sorted distinct customers of a table: the index of groupby('Customer ID')
Customers(t) == SetToSeq({t[i].cid : i \in 1..Len(t)}, LAMBDA a, b : a < b)

\* df['Order Date'].max()
MaxOrderDate(t) ==
    CHOOSE d \in {t[i].odate : i \in 1..Len(t)} : \A i \in 1..Len(t) : t[i].odate <= d

MinOrderDate(t) ==
    CHOOSE d \in {t[i].odate : i \in 1..Len(t)} : \A i \in 1..Len(t) : t[i].odate >= d

\* 'Order ID': 'nunique'
NUniqueOrders(t) == Cardinality({t[i].oid : i \in 1..Len(t)})

\* Series.rank(method='first'): ties are ranked in the order they appear
RankFirst(x) ==
    [i \in 1..Len(x) |->
        1 + Cardinality({j \in 1..Len(x) : x[j] < x[i]})
          + Cardinality({j \in 1..i - 1 : x[j] = x[i]})]

\* five times the quantile k/5 of the integers x (linear interpolation
\* between the two nearest order statistics), for k in 0..5
QuantileEdges5(x) ==
    LET srt == SortBy(x, LAMBDA a, b : a < b)
        n == Len(x)
    IN  [k \in 0..5 |->
            LET j == ((n - 1) * k) \div 5
                r == ((n - 1) * k) % 5
            IN  IF r = 0 THEN 5 * srt[j + 1]
                ELSE 5 * srt[j + 1] + r * (srt[j + 2] - srt[j + 1])]

\* pd.qcut(x, q=5, labels=labels, duplicates='drop') for a non-empty x.
\* Equal bin edges are dropped; five labels for fewer than five bins raise
\* ValueError ("Bin labels must be one fewer than the number of bin edges").
\* Otherwise a value is in bin i when edge i-1 < value <= edge i, the lowest
\* value being in bin 1.
qcut(x, labels) ==
    LET edges == QuantileEdges5(x)
        bin(v) == IF 5 * v = edges[0] THEN 1
                  ELSE Cardinality({k \in 0..5 : edges[k] < 5 * v})
    IN  IF Cardinality({edges[k] : k \in 0..5}) < 6
        THEN [error |-> "ValueError", values |-> <<>>]
        ELSE [error |-> "", values |-> [i \in 1..Len(x) |-> labels[bin(x[i])]]]

\* lines 777-783: recency, frequency and monetary of every customer
RfmFrame(t) ==
    LET custs == Customers(t)
        date_reference == MaxOrderDate(t)
        of(c) == RowsWhere(t, LAMBDA r : r.cid = c)
    IN  [i \in 1..Len(custs) |->
            [customer_id |-> custs[i],
             recency |-> date_reference - MaxOrderDate(of(custs[i])),
             frequency |-> NUniqueOrders(of(custs[i])),
             monetary |-> SumSeq(of(custs[i]), Sales)]]

\* the segments in the order of groupby('segment')
SegmentOrder == <<"Champions", "Fideles", "Gros depensiers", "Nouveaux",
                  "Occasionnels", "Perdus", "A risque">>

\* lines 821-829: segment_stats
SegmentStats(rfm) ==
    LET present == SelectSeq(SegmentOrder,
                             LAMBDA g : \E i \in 1..Len(rfm) : rfm[i].segment = g)
        of(g) == SelectSeq(rfm, LAMBDA r : r.segment = g)
    IN  [i \in 1..Len(present) |->
            LET rows == of(present[i])
            IN  [segment |-> present[i],
                 nb_clients |-> Len(rows),
                 recency_moy |-> Frac(SumSeq(rows, LAMBDA r : r.recency), Len(rows)),
                 frequency_moy |-> Frac(SumSeq(rows, LAMBDA r : r.frequency), Len(rows)),
                 monetary_moy |-> Frac(SumSeq(rows, LAMBDA r : r.monetary), Len(rows)),
                 ca_total |-> SumSeq(rows, LAMBDA r : r.monetary),
                 pct_clients |-> Round(Frac(Len(rows) * 100, Len(rfm)), 2)]]

\* lines 791-797 and 818: the frame with its scores and segments
RfmScored(base, r_score, f_score, m_score) ==
    [i \in 1..Len(base) |->
        [customer_id |-> base[i].customer_id,
         recency |-> base[i].recency,
         frequency |-> base[i].frequency,
         monetary |-> base[i].monetary,
         r_score |-> r_score[i], f_score |-> f_score[i], m_score |-> m_score[i],
         rfm_score_value |-> r_score[i] + f_score[i] + m_score[i],
         segment |-> segment_client([r_score |-> r_score[i], f_score |-> f_score[i],
                                     m_score |-> m_score[i]])]]

\* lines 832-843: rfm.nlargest(20, 'rfm_score_value') as records
TopClientsRfm(rfm) ==
    LET top == Head_(SortBy(rfm, LAMBDA a, b :
                                a.rfm_score_value > b.rfm_score_value), 20)
    IN  [i \in 1..Len(top) |->
            [client |-> top[i].customer_id, recency |-> top[i].recency,
             frequency |-> top[i].frequency,
             monetary |-> Round(FromInt(top[i].monetary), 2),
             rfm_score |-> <<top[i].r_score, top[i].f_score, top[i].m_score>>,
             segment |-> top[i].segment]]

\* lines 845-854
RfmResponse(rfm) ==
    [endpoint |-> "get_segmentation_rfm", error |-> "",
     rfm |-> rfm,
     top_clients |-> TopClientsRfm(rfm),
     segments |-> SegmentStats(rfm),
     statistiques |->
         [nb_total_clients |-> Len(rfm),
          recency_moyenne |->
              Round(Frac(SumSeq(rfm, LAMBDA x : x.recency), Len(rfm)), 1),
          frequency_moyenne |->
              Round(Frac(SumSeq(rfm, LAMBDA x : x.frequency), Len(rfm)), 2),
          monetary_moyenne |->
              Round(Frac(SumSeq(rfm, LAMBDA x : x.monetary), Len(rfm)), 2)]]

\* get_segmentation_rfm on a non-empty table, one local after the other; an
\* exception of pd.qcut is not caught and ends the request
get_segmentation_rfm ==
    /\ df # <<>>
    /\ \E base \in {RfmFrame(df)} :
       \E r \in {qcut([i \in 1..Len(base) |-> base[i].recency], <<5, 4, 3, 2, 1>>)},
          f \in {qcut(RankFirst([i \in 1..Len(base) |-> base[i].frequency]),
                      <<1, 2, 3, 4, 5>>)},
          m \in {qcut(RankFirst([i \in 1..Len(base) |-> base[i].monetary]),
                      <<1, 2, 3, 4, 5>>)} :
           IF r.error # "" \/ f.error # "" \/ m.error # ""
           THEN resp' = [endpoint |-> "get_segmentation_rfm", error |-> "ValueError"]
           ELSE \E rfm \in {RfmScored(base, r.values, f.values, m.values)} :
                    resp' = RfmResponse(rfm)
    /\ UNCHANGED df

----------------------------------------------------------------------------
(* GET /kpi/clients/clv                                                    *)

\* a lifetime that is not replaced
LifetimeDaysNoReplace(first_order, last_order) == last_order - first_order

\* lines 955-956: days between the first and the last order, 0 replaced by 1
LifetimeDays(first_order, last_order) ==
    IF last_order - first_order = 0 THEN 1 ELSE last_order - first_order

\* a classification whose first bound is strict
classify_clv_strict(clv_value, clv_median) ==
    IF Gt(clv_value, MulInt(clv_median, 2)) THEN "Tres elevee"
    ELSE IF Ge(clv_value, clv_median) THEN "Elevee"
    ELSE IF Ge(clv_value, DivInt(clv_median, 2)) THEN "Moyenne"
    ELSE "Faible"

\* lines 971-979
classify_clv(clv_value, clv_median) ==
    IF Ge(clv_value, MulInt(clv_median, 2)) THEN "Tres elevee"
    ELSE IF Ge(clv_value, clv_median) THEN "Elevee"
    ELSE IF Ge(clv_value, DivInt(clv_median, 2)) THEN "Moyenne"
    ELSE "Faible"

\* the categories in the order of groupby('categorie_clv')
ClvCategories == <<"Faible", "Moyenne", "Tres elevee", "Elevee">>

\* lines 944-966: one row per customer; x / (lifetime_days / 365) is
\* x * 365 / lifetime_days
ClientsClv(t) ==
    LET custs == Customers(t)
        of(c) == RowsWhere(t, LAMBDA r : r.cid = c)
    IN  [i \in 1..Len(custs) |->
            LET rows == of(custs[i])
                ca_total == SumSeq(rows, Sales)
                profit_total == SumSeq(rows, Profit)
                nb_commandes == NUniqueOrders(rows)
                lifetime_days == LifetimeDays(MinOrderDate(rows), MaxOrderDate(rows))
                ca_annuel == Frac(ca_total * 365, lifetime_days)
                profit_annuel == Frac(profit_total * 365, lifetime_days)
            IN  [customer_id |-> custs[i],
                 ca_total |-> ca_total,
                 profit_total |-> profit_total,
                 nb_commandes |-> nb_commandes,
                 lifetime_days |-> lifetime_days,
                 ca_moyen_commande |-> Frac(ca_total, nb_commandes),
                 frequence_achat_annuelle |-> Frac(nb_commandes * 365, lifetime_days),
                 ca_annuel |-> ca_annuel,
                 clv_3_ans |-> MulInt(ca_annuel, 3),
                 profit_clv_3_ans |-> MulInt(profit_annuel, 3)]]

RECURSIVE SumFrac(_)
SumFrac(s) == IF s = <<>> THEN Zero ELSE Add(s[1], SumFrac(Tail(s)))

\* line 981: the frame with the category of every customer
ClvClassified(base, clv_median) ==
    [i \in 1..Len(base) |->
        [customer_id |-> base[i].customer_id,
         ca_total |-> base[i].ca_total,
         nb_commandes |-> base[i].nb_commandes,
         lifetime_days |-> base[i].lifetime_days,
         ca_annuel |-> base[i].ca_annuel,
         clv_3_ans |-> base[i].clv_3_ans,
         profit_clv_3_ans |-> base[i].profit_clv_3_ans,
         categorie_clv |-> classify_clv(base[i].clv_3_ans, clv_median)]]

\* lines 984-997: clients_clv.nlargest(limite, 'clv_3_ans') as records
TopClv(clients_clv, limite) ==
    LET top_clv == Head_(SortBy(clients_clv,
                                LAMBDA a, b : Gt(a.clv_3_ans, b.clv_3_ans)), limite)
    IN  [i \in 1..Len(top_clv) |->
            [client |-> top_clv[i].customer_id,
             ca_total |-> Round(FromInt(top_clv[i].ca_total), 2),
             nb_commandes |-> top_clv[i].nb_commandes,
             ca_annuel |-> Round(top_clv[i].ca_annuel, 2),
             clv_3_ans |-> Round(top_clv[i].clv_3_ans, 2),
             profit_clv_3_ans |-> Round(top_clv[i].profit_clv_3_ans, 2),
             categorie |-> top_clv[i].categorie_clv,
             lifetime_days |-> top_clv[i].lifetime_days]]

\* lines 1000-1005: cat_stats
ClvCatStats(clients_clv) ==
    LET cats == SelectSeq(ClvCategories,
                    LAMBDA g : \E i \in 1..Len(clients_clv) :
                                   clients_clv[i].categorie_clv = g)
    IN  [k \in 1..Len(cats) |->
            LET rows == SelectSeq(clients_clv, LAMBDA r : r.categorie_clv = cats[k])
            IN  [categorie |-> cats[k],
                 nb_clients |-> Len(rows),
                 clv_total |-> SumFrac([i \in 1..Len(rows) |-> rows[i].clv_3_ans]),
                 profit_total |->
                     SumFrac([i \in 1..Len(rows) |-> rows[i].profit_clv_3_ans])]]

\* lines 1007-1015; clients_clv is the frame of all customers the handler
\* classifies and clv_median its median before rounding
ClvResponse(clients_clv, clv_median, limite) ==
    [endpoint |-> "get_customer_lifetime_value",
     limite |-> limite,
     clients_clv |-> clients_clv,
     clv_median |-> clv_median,
     top_clients |-> TopClv(clients_clv, limite),
     statistiques |->
         [clv_moyenne |->
              Round(DivInt(SumFrac([i \in 1..Len(clients_clv) |->
                                       clients_clv[i].clv_3_ans]),
                           Len(clients_clv)), 2),
          clv_mediane |-> Round(clv_median, 2),
          ca_annuel_moyen |->
              Round(DivInt(SumFrac([i \in 1..Len(clients_clv) |->
                                       clients_clv[i].ca_annuel]),
                           Len(clients_clv)), 2)],
     par_categorie |-> ClvCatStats(clients_clv)]

\* limite: int = Query(50, ge=10, le=200)
LimitesClv == {10, 50}

\* get_customer_lifetime_value on a non-empty table, one local after the other
get_customer_lifetime_value ==
    /\ df # <<>>
    /\ \E limite \in LimitesClv, base \in {ClientsClv(df)} :
       \E clv_median \in {Median([i \in 1..Len(base) |-> base[i].clv_3_ans])} :
       \E clients_clv \in {ClvClassified(base, clv_median)} :
           resp' = ClvResponse(clients_clv, clv_median, limite)
    /\ UNCHANGED df

----------------------------------------------------------------------------
(* Tables of customers: every customer has one order, on one of the dates  *)
(* of CustomerDates and of one of the amounts of CustomerSales; customer 1 *)
(* may have a second, earlier order.  The tables of SpecCLV may also hold  *)
(* NOtherCustomers further customers of one order each, so that there are  *)
(* more customers than the smallest limite.                                *)

NCustomers == 3

CustomerDates == {DaysFromCivil(2017, 12, 27), DaysFromCivil(2017, 12, 28),
                  DaysFromCivil(2017, 12, 29), DaysFromCivil(2017, 12, 30)}

CustomerSales(c) == IF c % 2 = 1 THEN {0, 10, 40} ELSE {10, 30}

CustomerRow(c, date, v) ==
    [BaseRow EXCEPT !.cid = c, !.oid = c, !.prod = c, !.odate = date,
                    !.sdate = date + 2, !.sales = v]

\* an earlier order of customer 1
EarlierOrders == {<<>>,
                  <<[CustomerRow(1, DaysFromCivil(2016, 12, 28), 10)
                         EXCEPT !.oid = 100]>>}

CustomerTablesOn(dates) ==
    {e \o [c \in 1..NCustomers |-> CustomerRow(c, d[c], v[c])] :
        d \in [1..NCustomers -> dates],
        v \in {w \in [1..NCustomers -> UNION {CustomerSales(c) : c \in 1..NCustomers}] :
                  \A c \in 1..NCustomers : w[c] \in CustomerSales(c)},
        e \in EarlierOrders}

InitCustomers ==
    /\ df \in CustomerTablesOn(CustomerDates)
    /\ resp = NoResponse

NextRFM == get_segmentation_rfm

SpecRFM == InitCustomers /\ [][NextRFM]_vars

NOtherCustomers == 9

OtherCustomers ==
    [k \in 1..NOtherCustomers |->
        CustomerRow(NCustomers + k, DaysFromCivil(2017, 12, 30), 20)]

ClvDates == {DaysFromCivil(2017, 12, 29), DaysFromCivil(2017, 12, 30)}

InitCLV ==
    /\ \E t \in CustomerTablesOn(ClvDates), o \in {<<>>, OtherCustomers} : df = t \o o
    /\ resp = NoResponse

NextCLV == get_customer_lifetime_value

SpecCLV == InitCLV /\ [][NextCLV]_vars

----------------------------------------------------------------------------
(* GET /kpi/livraisons/retards                                             *)

\* lines 1485-1490
seuils_retard ==
    [m \in {"Standard Class", "Second Class", "First Class", "Same Day"} |->
        CASE m = "Standard Class" -> 7
          [] m = "Second Class" -> 5
          [] m = "First Class" -> 3
          [] m = "Same Day" -> 1]

\* the default of seuils_retard.get(row['Ship Mode'], 7)
SeuilDefaut == 7

\* line 1482
DelaiLivraison(row) == row.sdate - row.odate

\* a row is late from its threshold on
est_en_retard_inclusive(row) ==
    LET seuil == IF row.mode \in DOMAIN seuils_retard
                 THEN seuils_retard[row.mode] ELSE SeuilDefaut
    IN  DelaiLivraison(row) >= seuil

\* lines 1492-1494
est_en_retard(row) ==
    LET seuil == IF row.mode \in DOMAIN seuils_retard
                 THEN seuils_retard[row.mode] ELSE SeuilDefaut
    IN  DelaiLivraison(row) > seuil

\* groupby(column).agg({'est_retard': ['sum', 'count']}) and the rate
RetardsPar(t, keys, col) ==
    LET ks == SetToSeq(keys, LAMBDA a, b : StrRank(a) < StrRank(b))
    IN  [k \in 1..Len(ks) |->
            LET rows == SelectSeq(t, LAMBDA r : r[col] = ks[k])
                late == SelectSeq(rows, est_en_retard)
            IN  [nom |-> ks[k],
                 nb_retards |-> Len(late),
                 nb_total |-> Len(rows),
                 taux_retard |-> Round(Frac(Len(late) * 100, Len(rows)), 2)]]

\* the body of get_taux_retards on a non-empty table; est_retard is the
\* column the handler adds to its copy of the table
TauxRetards(t) ==
    LET est_retard == [i \in 1..Len(t) |-> est_en_retard(t[i])]
        nb_total == Len(t)
        nb_retards == Cardinality({i \in 1..Len(t) : est_retard[i]})
        taux_retard == IF nb_total > 0 THEN Frac(nb_retards * 100, nb_total) ELSE Zero
    IN  [endpoint |-> "get_taux_retards",
         est_retard |-> est_retard,
         statistiques |-> [nb_total_livraisons |-> nb_total,
                           nb_retards |-> nb_retards,
                           taux_retard_global |-> Round(taux_retard, 2)],
         par_mode |-> RetardsPar(t, {t[i].mode : i \in 1..Len(t)}, "mode"),
         par_region |-> RetardsPar(t, {t[i].region : i \in 1..Len(t)}, "region"),
         par_categorie |-> RetardsPar(t, {t[i].cat : i \in 1..Len(t)}, "cat"),
         seuils_utilises |-> seuils_retard]

get_taux_retards ==
    /\ df # <<>>
    /\ resp' = TauxRetards(df)
    /\ UNCHANGED df

----------------------------------------------------------------------------
(* Tables of shipments: NShipments order lines, each of one of the ship    *)
(* modes of ShipModes ("Overnight" is not a mode of seuils_retard) and     *)
(* shipped one of ShipDelays days after the order.                         *)

NShipments == 2

ShipModes == {"Standard Class", "Second Class", "First Class", "Same Day", "Overnight"}

ShipDelays == {1, 2, 3, 4, 5, 6, 7, 8}

ShipmentRow(k, mode, delay) ==
    [BaseRow EXCEPT !.oid = k, !.prod = k, !.mode = mode,
                    !.sdate = BaseRow.odate + delay,
                    !.region = IF k % 2 = 1 THEN "East" ELSE "West",
                    !.cat = IF k % 3 = 1 THEN "Furniture" ELSE "Technology"]

InitShipments ==
    /\ \E m \in [1..NShipments -> ShipModes], d \in [1..NShipments -> ShipDelays] :
           df = [k \in 1..NShipments |-> ShipmentRow(k, m[k], d[k])]
    /\ resp = NoResponse

NextShipments == get_taux_retards

SpecShipments == InitShipments /\ [][NextShipments]_vars

----------------------------------------------------------------------------
(* GET /kpi/globaux, /kpi/categories and /kpi/produits/cout-prix           *)

\* a date filter that is not given (None or the empty string)
NoDate == 0 - 1

\* a filter whose date_fin is exclusive
filtrer_dataframe_exclusive(t, date_debut, date_fin, categorie, region, segment) ==
    LET f1 == IF date_debut # NoDate
              THEN SelectSeq(t, LAMBDA r : r.odate >= date_debut) ELSE t
        f2 == IF date_fin # NoDate
              THEN SelectSeq(f1, LAMBDA r : r.odate < date_fin) ELSE f1
        f3 == IF categorie # "" /\ categorie # "Toutes"
              THEN SelectSeq(f2, LAMBDA r : r.cat = categorie) ELSE f2
        f4 == IF region # "" /\ region # "Toutes"
              THEN SelectSeq(f3, LAMBDA r : r.region = region) ELSE f3
        f5 == IF segment # "" /\ segment # "Tous"
              THEN SelectSeq(f4, LAMBDA r : r.segment = segment) ELSE f4
    IN  f5

\* lines 100-122; a string filter that is not given is ""
filtrer_dataframe(t, date_debut, date_fin, categorie, region, segment) ==
    LET f1 == IF date_debut # NoDate
              THEN SelectSeq(t, LAMBDA r : r.odate >= date_debut) ELSE t
        f2 == IF date_fin # NoDate
              THEN SelectSeq(f1, LAMBDA r : r.odate <= date_fin) ELSE f1
        f3 == IF categorie # "" /\ categorie # "Toutes"
              THEN SelectSeq(f2, LAMBDA r : r.cat = categorie) ELSE f2
        f4 == IF region # "" /\ region # "Toutes"
              THEN SelectSeq(f3, LAMBDA r : r.region = region) ELSE f3
        f5 == IF segment # "" /\ segment # "Tous"
              THEN SelectSeq(f4, LAMBDA r : r.segment = segment) ELSE f4
    IN  f5

\* line 171
PanierMoyen(ca_total, nb_commandes) ==
    IF nb_commandes > 0 THEN Frac(ca_total, nb_commandes) ELSE Zero

\* line 174
MargeMoyenne(profit_total, ca_total) ==
    IF ca_total > 0 THEN Frac(profit_total * 100, ca_total) ELSE Zero

\* lines 167-185 on the filtered table; loc holds the ratios before rounding
KpiGlobaux(df_filtered) ==
    LET ca_total == SumSeq(df_filtered, Sales)
        nb_commandes == NUniqueOrders(df_filtered)
        nb_clients == Cardinality({df_filtered[i].cid : i \in 1..Len(df_filtered)})
        panier_moyen == PanierMoyen(ca_total, nb_commandes)
        profit_total == SumSeq(df_filtered, Profit)
        marge_moyenne == MargeMoyenne(profit_total, ca_total)
        marge_brute_par_commande == PanierMoyen(profit_total, nb_commandes)
    IN  [endpoint |-> "get_kpi_globaux",
         filtres |-> <<>>,
         df_filtered |-> df_filtered,
         ca_total |-> Round(FromInt(ca_total), 2),
         nb_commandes |-> nb_commandes,
         nb_clients |-> nb_clients,
         panier_moyen |-> Round(panier_moyen, 2),
         quantite_vendue |-> SumSeq(df_filtered, Quantity),
         profit_total |-> Round(FromInt(profit_total), 2),
         marge_moyenne |-> Round(marge_moyenne, 2),
         marge_brute_par_commande |-> Round(marge_brute_par_commande, 2),
         loc |-> [ca_total |-> ca_total, profit_total |-> profit_total,
                  panier_moyen |-> panier_moyen, marge_moyenne |-> marge_moyenne]]

\* the filters requested here; a date is a day, as "YYYY-MM-DD" names one
DatesDebut == {NoDate, DaysFromCivil(2017, 3, 15)}

DatesFin == {NoDate, DaysFromCivil(2017, 3, 15)}

CategoriesFiltre == {"", "Toutes", "Furniture"}

RegionsFiltre == {"", "Toutes", "West"}

SegmentsFiltre == {"", "Tous", "Consumer"}

\* filtres is the request: the parameters the answer was computed for
get_kpi_globaux ==
    /\ \E date_debut \in DatesDebut, date_fin \in DatesFin,
          categorie \in CategoriesFiltre, region \in RegionsFiltre,
          segment \in SegmentsFiltre :
       \E df_filtered \in {filtrer_dataframe(df, date_debut, date_fin, categorie,
                                             region, segment)} :
           resp' = [KpiGlobaux(df_filtered) EXCEPT !.filtres =
                       [date_debut |-> date_debut, date_fin |-> date_fin,
                        categorie |-> categorie, region |-> region,
                        segment |-> segment]]
    /\ UNCHANGED df

\* line 404: Series division, x / 0 is inf, -inf or NaN, and round(2)
MargePctCategorie(profit, sales) == Round(Frac(profit * 100, sales), 2)

\* lines 398-405, before the sort
PerformanceCategories(t) ==
    LET cats == SetToSeq({t[i].cat : i \in 1..Len(t)},
                         LAMBDA a, b : StrRank(a) < StrRank(b))
    IN  [k \in 1..Len(cats) |->
            LET rows == SelectSeq(t, LAMBDA r : r.cat = cats[k])
            IN  [categorie |-> cats[k],
                 ca |-> SumSeq(rows, Sales),
                 profit |-> SumSeq(rows, Profit),
                 nb_commandes |-> NUniqueOrders(rows),
                 marge_pct |-> MargePctCategorie(SumSeq(rows, Profit),
                                                 SumSeq(rows, Sales))]]

get_performance_categories ==
    /\ \E sorted \in SortValuesDesc(PerformanceCategories(df), LAMBDA c : c.ca) :
           resp' = [endpoint |-> "get_performance_categories", data |-> sorted]
    /\ UNCHANGED df

\* Series.mean(): the mean of the values that are not NaN
MeanSkipNa(s) ==
    LET vals == SelectSeq(s, LAMBDA x : ~IsNaN(x))
    IN  DivInt(SumFrac(vals), Len(vals))

\* lines 1378-1389, before the sort
CoutPrixProduits(t) ==
    LET index == SetToSeq({[prod |-> t[i].prod, cat |-> t[i].cat] : i \in 1..Len(t)},
                          LAMBDA a, b : \/ a.prod < b.prod
                                        \/ a.prod = b.prod
                                           /\ StrRank(a.cat) < StrRank(b.cat))
    IN  [k \in 1..Len(index) |->
            LET rows == SelectSeq(t, LAMBDA r : r.prod = index[k].prod
                                                /\ r.cat = index[k].cat)
                sales == SumSeq(rows, Sales)
                profit == SumSeq(rows, Profit)
                quantity == SumSeq(rows, Quantity)
                prix_unitaire == Frac(sales, quantity)
                marge_unitaire == Frac(profit, quantity)
            IN  [produit |-> index[k].prod,
                 categorie |-> index[k].cat,
                 sales |-> sales,
                 quantity |-> quantity,
                 prix_unitaire |-> prix_unitaire,
                 marge_unitaire |-> marge_unitaire,
                 cout_unitaire |-> Sub(prix_unitaire, marge_unitaire),
                 marge_pct |-> ReplaceInfFillna(Frac(profit * 100, sales))]]

\* lines 1391-1415 on the sorted frame
CoutPrixResponse(sorted, limite) ==
    LET produits == Head_(sorted, limite)
        n == Len(produits)
    IN  [endpoint |-> "get_cout_prix_unitaire",
         limite |-> limite,
         data |-> [i \in 1..n |->
             [produit |-> produits[i].produit,
              categorie |-> produits[i].categorie,
              prix_unitaire |-> Round(produits[i].prix_unitaire, 2),
              cout_unitaire |-> Round(produits[i].cout_unitaire, 2),
              marge_unitaire |-> Round(produits[i].marge_unitaire, 2),
              marge_pct |-> Round(produits[i].marge_pct, 2),
              quantite_vendue |-> produits[i].quantity,
              ca_total |-> Round(FromInt(produits[i].sales), 2)]],
         statistiques |->
             [prix_unitaire_moyen |->
                  Round(MeanSkipNa([i \in 1..n |-> produits[i].prix_unitaire]), 2),
              cout_unitaire_moyen |->
                  Round(MeanSkipNa([i \in 1..n |-> produits[i].cout_unitaire]), 2),
              marge_unitaire_moyenne |->
                  Round(MeanSkipNa([i \in 1..n |-> produits[i].marge_unitaire]), 2)]]

\* limite: int = Query(30, ge=10, le=100)
LimitesCoutPrix == {10, 30}

get_cout_prix_unitaire ==
    /\ \E limite \in LimitesCoutPrix,
          sorted \in SortValuesDesc(CoutPrixProduits(df), LAMBDA r : r.sales) :
           resp' = CoutPrixResponse(sorted, limite)
    /\ UNCHANGED df

----------------------------------------------------------------------------
(* Tables of NLines order lines whose amounts may be zero or negative: a   *)
(* line of every second product is of 2016 or 2017, with any profit and    *)
(* quantity; the others are of 2017, with a loss and a quantity of 2.      *)

NLines == 2

LineDates(k) == IF k % 2 = 1 THEN {BcgDates[1], BcgDates[2]} ELSE {BcgDates[2]}

LineSales == {0 - 100, 0, 50}

LineProfits == {0 - 20, 0}

LineQuantities == {0, 2}

LineRow(k, date, sales, profit, qty) ==
    [BaseRow EXCEPT !.oid = k, !.cid = k, !.prod = k, !.odate = date,
                    !.sdate = date + 2,
                    !.cat = IF k % 2 = 1 THEN "Furniture" ELSE "Technology",
                    !.subcat = IF k % 2 = 1 THEN "Chairs" ELSE "Phones",
                    !.sales = sales, !.profit = profit, !.qty = qty]

InitLines ==
    /\ \E d \in [1..NLines -> {BcgDates[1], BcgDates[2]}],
          v \in [1..NLines -> LineSales], p \in [1..NLines -> LineProfits],
          q \in [1..NLines -> LineQuantities] :
           /\ \A k \in 1..NLines : d[k] \in LineDates(k)
           /\ \A k \in 1..NLines : k % 2 = 0 => (p[k] = 0 - 20 /\ q[k] = 2)
           /\ df = [k \in 1..NLines |-> LineRow(k, d[k], v[k], p[k], q[k])]
    /\ resp = NoResponse

NextRatios ==
    \/ get_kpi_globaux
    \/ get_performance_categories
    \/ get_cout_prix_unitaire
    \/ get_bcg_matrix

SpecRatios == InitLines /\ [][NextRatios]_vars

----------------------------------------------------------------------------
(* GET /kpi/categories/matrix                                              *)

\* a classification whose sales bound is strict
MatrixQuadrantStrict(ca, marge, ca_median, marge_median) ==
    IF Gt(ca, ca_median) /\ Ge(marge, marge_median)
    THEN [quadrant |-> "Q1 - Priorite", action |-> "Investir et developper"]
    ELSE IF Gt(ca, ca_median) /\ Lt(marge, marge_median)
    THEN [quadrant |-> "Q2 - A optimiser", action |-> "Reduire couts/discounts"]
    ELSE IF Le(ca, ca_median) /\ Ge(marge, marge_median)
    THEN [quadrant |-> "Q3 - A developper", action |-> "Augmenter visibilite"]
    ELSE [quadrant |-> "Q4 - A abandonner", action |-> "Reduire ou arreter"]

\* lines 495-507
MatrixQuadrant(ca, marge, ca_median, marge_median) ==
    IF Ge(ca, ca_median) /\ Ge(marge, marge_median)
    THEN [quadrant |-> "Q1 - Priorite", action |-> "Investir et developper"]
    ELSE IF Ge(ca, ca_median) /\ Lt(marge, marge_median)
    THEN [quadrant |-> "Q2 - A optimiser", action |-> "Reduire couts/discounts"]
    ELSE IF Lt(ca, ca_median) /\ Ge(marge, marge_median)
    THEN [quadrant |-> "Q3 - A developper", action |-> "Augmenter visibilite"]
    ELSE [quadrant |-> "Q4 - A abandonner", action |-> "Reduire ou arreter"]

\* lines 478-485: one row per (Category, Sub-Category), and marge_pct
Subcats(t) ==
    LET index == SetToSeq({[cat |-> t[i].cat, subcat |-> t[i].subcat] : i \in 1..Len(t)},
                          LAMBDA a, b : \/ StrRank(a.cat) < StrRank(b.cat)
                                        \/ a.cat = b.cat
                                           /\ StrRank(a.subcat) < StrRank(b.subcat))
    IN  [k \in 1..Len(index) |->
            LET rows == SelectSeq(t, LAMBDA r : r.cat = index[k].cat
                                                /\ r.subcat = index[k].subcat)
            IN  [categorie |-> index[k].cat,
                 sous_categorie |-> index[k].subcat,
                 sales |-> SumSeq(rows, Sales),
                 profit |-> SumSeq(rows, Profit),
                 quantity |-> SumSeq(rows, Quantity),
                 nb_commandes |-> NUniqueOrders(rows),
                 marge_pct |-> ReplaceInfFillna(Frac(SumSeq(rows, Profit) * 100,
                                                     SumSeq(rows, Sales)))]]

\* lines 491-517: the records before the sort; marge is the margin before rounding
MatrixRecords(subcats, ca_median, marge_median) ==
    [k \in 1..Len(subcats) |->
        [categorie |-> subcats[k].categorie,
         sous_categorie |-> subcats[k].sous_categorie,
         ca |-> Round(FromInt(subcats[k].sales), 2),
         profit |-> Round(FromInt(subcats[k].profit), 2),
         marge_pct |-> Round(subcats[k].marge_pct, 2),
         marge |-> subcats[k].marge_pct,
         quantite |-> subcats[k].quantity,
         nb_commandes |-> subcats[k].nb_commandes,
         quadrant |-> MatrixQuadrant(FromInt(subcats[k].sales), subcats[k].marge_pct,
                                     ca_median, marge_median).quadrant,
         action_recommandee |->
             MatrixQuadrant(FromInt(subcats[k].sales), subcats[k].marge_pct,
                            ca_median, marge_median).action]]

\* lines 519-535: sorted(result, key=ca, reverse=True) is stable
MatrixResponse(records, ca_median, marge_median) ==
    LET result == SortBy(records, LAMBDA a, b : Gt(a.ca, b.ca))
        count(q) == Len(SelectSeq(result, LAMBDA r : r.quadrant = q))
    IN  [endpoint |-> "get_categories_matrix",
         data |-> result,
         ca_median |-> ca_median,
         marge_median |-> marge_median,
         seuils |-> [ca_median |-> Round(ca_median, 2),
                     marge_median |-> Round(marge_median, 2)],
         repartition |-> [Q1_priorite |-> count("Q1 - Priorite"),
                          Q2_optimiser |-> count("Q2 - A optimiser"),
                          Q3_developper |-> count("Q3 - A developper"),
                          Q4_abandonner |-> count("Q4 - A abandonner")]]

get_categories_matrix ==
    /\ \E subcats \in {Subcats(df)} :
       \E ca_median \in {Median([k \in 1..Len(subcats) |-> FromInt(subcats[k].sales)])},
          marge_median \in {Median([k \in 1..Len(subcats) |-> subcats[k].marge_pct])} :
       \E records \in {MatrixRecords(subcats, ca_median, marge_median)} :
           resp' = MatrixResponse(records, ca_median, marge_median)
    /\ UNCHANGED df

----------------------------------------------------------------------------
(* Tables of NSubcatLines order lines spread over three sub-categories.    *)

NSubcatLines == 3

SubcatSales == {0, 50, 100}

SubcatProfits == {0 - 10, 10, 20}

SubcatRow(k, sales, profit) ==
    [BaseRow EXCEPT !.oid = k, !.prod = k,
                    !.cat = IF k % 3 = 1 THEN "Furniture"
                            ELSE IF k % 3 = 2 THEN "Office Supplies" ELSE "Technology",
                    !.subcat = IF k % 3 = 1 THEN "Chairs"
                               ELSE IF k % 3 = 2 THEN "Paper" ELSE "Phones",
                    !.sales = sales, !.profit = profit]

InitSubcats ==
    /\ \E v \in [1..NSubcatLines -> SubcatSales], p \in [1..NSubcatLines -> SubcatProfits] :
           df = [k \in 1..NSubcatLines |-> SubcatRow(k, v[k], p[k])]
    /\ resp = NoResponse

NextMatrix == get_categories_matrix

SpecMatrix == InitSubcats /\ [][NextMatrix]_vars

----------------------------------------------------------------------------
(* GET /kpi/clients/retention                                              *)

\* dt.to_period('M') as the number of the month: 12 * year + month - 1
OrderMonth(day) == 12 * YearOf(day) + MonthOf(day) - 1

\* the month of the last order of a customer
CohortMonthLast(t, c) ==
    LET months == {OrderMonth(t[i].odate) : i \in {j \in 1..Len(t) : t[j].cid = c}}
    IN  CHOOSE m \in months : \A x \in months : m >= x

\* line 1029: the month of the first order of a customer
CohortMonth(t, c) ==
    LET months == {OrderMonth(t[i].odate) : i \in {j \in 1..Len(t) : t[j].cid = c}}
    IN  CHOOSE m \in months : \A x \in months : m <= x

\* lines 1033-1043: customers of a cohort with an order period months later
NbClients(t, cohort, period) ==
    Cardinality({t[i].cid : i \in {j \in 1..Len(t) :
        /\ CohortMonth(t, t[j].cid) = cohort
        /\ OrderMonth(t[j].odate) - cohort = period}})

\* lines 1046-1051: pivot_table(index='cohort', columns='period', fill_value=0);
\* index and columns are the sorted cohorts and the sorted periods that occur
CohortPivot(t) ==
    LET cohorts == {CohortMonth(t, t[i].cid) : i \in 1..Len(t)}
        periods == {OrderMonth(t[i].odate) - CohortMonth(t, t[i].cid) : i \in 1..Len(t)}
    IN  [index |-> SetToSeq(cohorts, LAMBDA a, b : a < b),
         columns |-> SetToSeq(periods, LAMBDA a, b : a < b),
         cells |-> [c \in cohorts |-> [q \in periods |-> NbClients(t, c, q)]]]

\* a size read in the last column
CohortSizeLastColumn(row, columns) == row[columns[Len(columns)]]

\* line 1054: cohort_pivot.iloc[:, 0]
CohortSize(row, columns) == row[columns[1]]

\* line 1055: retention_matrix
RetentionMatrix(pivot) ==
    [c \in DOMAIN pivot.cells |->
        [q \in DOMAIN pivot.cells[c] |->
            Frac(pivot.cells[c][q] * 100, CohortSize(pivot.cells[c], pivot.columns))]]

\* DataFrame.tail(n)
Tail_(s, n) == IF Len(s) <= n THEN s ELSE SubSeq(s, Len(s) - n + 1, Len(s))

\* the mean of a column of the matrix when the column exists, else 0
RetentionMean(pivot, matrix, period) ==
    IF \E k \in 1..Len(pivot.columns) : pivot.columns[k] = period
    THEN DivInt(SumFrac([k \in 1..Len(pivot.index) |-> matrix[pivot.index[k]][period]]),
                Len(pivot.index))
    ELSE Zero

\* lines 1058-1083 on a non-empty pivot; retention_matrix and columns are
\* the matrix and its columns before the truncations
RetentionResponse(pivot, matrix) ==
    LET recent == Tail_(pivot.index, 12)
        cols == Head_(pivot.columns, 12)
    IN  [endpoint |-> "get_taux_retention",
         retention_matrix |-> matrix,
         cohort_pivot |-> pivot.cells,
         columns |-> pivot.columns,
         cohort_data |-> [k \in 1..Len(recent) |->
             [cohort |-> recent[k],
              month |-> [q \in Range(cols) |-> Round(matrix[recent[k]][q], 1)]]],
         statistiques |->
             [retention_1_mois |-> Round(RetentionMean(pivot, matrix, 1), 2),
              retention_3_mois |-> Round(RetentionMean(pivot, matrix, 3), 2),
              retention_6_mois |-> Round(RetentionMean(pivot, matrix, 6), 2),
              nb_cohortes |-> Len(pivot.index)]]

get_taux_retention ==
    /\ df # <<>>
    /\ \E pivot \in {CohortPivot(df)} :
       \E matrix \in {RetentionMatrix(pivot)} :
           resp' = RetentionResponse(pivot, matrix)
    /\ UNCHANGED df

----------------------------------------------------------------------------
(* Tables of cohorts: NBuyers customers, each with a first order in one    *)
(* of the months of FirstMonths and possibly a second order some months    *)
(* later, beside NEarlyCustomers customers (or none) of one order each in  *)
(* consecutive months from January 2015 on.                                *)

NBuyers == 2

FirstMonths == {1, 2, 3}

\* months between the first and the second order; 0: no second order
SecondOrderAfter == {0, 1, 13}

\* the 15th of the k-th month counted from January of year
MidMonth(year, k) == DaysFromCivil(year + ((k - 1) \div 12), ((k - 1) % 12) + 1, 15)

BuyerRows(c, first, after) ==
    LET one == [BaseRow EXCEPT !.cid = c, !.oid = 2 * c, !.prod = c,
                               !.odate = MidMonth(2016, first),
                               !.sdate = MidMonth(2016, first) + 2]
        two == [one EXCEPT !.oid = 2 * c + 1,
                           !.odate = MidMonth(2016, first + after),
                           !.sdate = MidMonth(2016, first + after) + 2]
    IN  IF after = 0 THEN <<one>> ELSE <<one, two>>

RECURSIVE Concat(_)
Concat(ss) == IF ss = <<>> THEN <<>> ELSE ss[1] \o Concat(Tail(ss))

NEarlyCustomers == 12

EarlyCustomers ==
    [k \in 1..NEarlyCustomers |->
        [BaseRow EXCEPT !.cid = 100 + k, !.oid = 100 + k, !.prod = 1,
                        !.odate = MidMonth(2015, k), !.sdate = MidMonth(2015, k) + 2]]

InitCohorts ==
    /\ \E f \in [1..NBuyers -> FirstMonths], a \in [1..NBuyers -> SecondOrderAfter],
          e \in {<<>>, EarlyCustomers} :
           df = e \o Concat([c \in 1..NBuyers |-> BuyerRows(c, f[c], a[c])])
    /\ resp = NoResponse

NextRetention == get_taux_retention

SpecRetention == InitCohorts /\ [][NextRetention]_vars

----------------------------------------------------------------------------
(* GET /kpi/temporel/avance                                                *)

\* lines 578-590: one bucket per month with an order, in the order of periode
Monthly(t) ==
    LET periodes == SetToSeq({OrderMonth(t[i].odate) : i \in 1..Len(t)},
                             LAMBDA a, b : a < b)
    IN  [k \in 1..Len(periodes) |->
            LET rows == SelectSeq(t, LAMBDA r : OrderMonth(r.odate) = periodes[k])
            IN  [periode |-> periodes[k],
                 year |-> periodes[k] \div 12,
                 month |-> (periodes[k] % 12) + 1,
                 sales |-> SumSeq(rows, Sales),
                 profit |-> SumSeq(rows, Profit),
                 nb_commandes |-> NUniqueOrders(rows),
                 quantity |-> SumSeq(rows, Quantity)]]

\* a mean over three buckets whatever the position
RollingMeanFixed(values, i) ==
    LET from == IF i > 2 THEN i - 2 ELSE 1
    IN  Frac(SumSeq(SubSeq(values, from, i), LAMBDA v : v), 3)

\* lines 594-595: rolling(window=3, min_periods=1).mean() at position i
RollingMean(values, i) ==
    LET from == IF i > 2 THEN i - 2 ELSE 1
    IN  Frac(SumSeq(SubSeq(values, from, i), LAMBDA v : v), i - from + 1)

\* a growth that keeps what the division gives
CroissancePctRaw(values, i) ==
    IF i = 1 THEN Frac(0, 0)
    ELSE Frac((values[i] - values[i - 1]) * 100, values[i - 1])

\* lines 598-599: shift(1), the division, replace of the infinities, fillna(0)
CroissancePct(values, i) ==
    IF i = 1 THEN ReplaceInfFillna(Frac(0, 0))
    ELSE ReplaceInfFillna(Frac((values[i] - values[i - 1]) * 100, values[i - 1]))

\* lines 607-615: the bucket of the same month a year before; an absent
\* value (None) is the empty sequence
YearBefore(monthly, i) ==
    LET prev_year_data == SelectSeq(monthly,
            LAMBDA b : b.year = monthly[i].year - 1 /\ b.month = monthly[i].month)
    IN  IF Len(prev_year_data) > 0
        THEN [ca_n1 |-> <<Round(FromInt(prev_year_data[1].sales), 2)>>,
              profit_n1 |-> <<Round(FromInt(prev_year_data[1].profit), 2)>>,
              variation_yoy |->
                  IF prev_year_data[1].sales > 0
                  THEN <<Round(Frac((monthly[i].sales - prev_year_data[1].sales) * 100,
                                    prev_year_data[1].sales), 2)>>
                  ELSE <<>>]
        ELSE [ca_n1 |-> <<>>, profit_n1 |-> <<>>, variation_yoy |-> <<>>]

\* lines 605-630; mm3 and croissance are the values before rounding
TemporelRecords(monthly) ==
    LET sales == [k \in 1..Len(monthly) |-> monthly[k].sales]
        profits == [k \in 1..Len(monthly) |-> monthly[k].profit]
    IN  [i \in 1..Len(monthly) |->
            [periode |-> monthly[i].periode,
             year |-> monthly[i].year,
             month |-> monthly[i].month,
             ca |-> Round(FromInt(monthly[i].sales), 2),
             profit |-> Round(FromInt(monthly[i].profit), 2),
             nb_commandes |-> monthly[i].nb_commandes,
             quantite |-> monthly[i].quantity,
             ca_mm3 |-> Round(RollingMean(sales, i), 2),
             profit_mm3 |-> Round(RollingMean(profits, i), 2),
             croissance_pct |-> Round(CroissancePct(sales, i), 2),
             mm3 |-> RollingMean(sales, i),
             croissance |-> CroissancePct(sales, i),
             ca_n1 |-> YearBefore(monthly, i).ca_n1,
             profit_n1 |-> YearBefore(monthly, i).profit_n1,
             variation_yoy |-> YearBefore(monthly, i).variation_yoy]]

\* idxmax / idxmin: the first bucket with the greatest / smallest sales
FirstExtreme(monthly, Better(_, _)) ==
    monthly[CHOOSE i \in 1..Len(monthly) :
                /\ \A j \in 1..Len(monthly) : ~Better(monthly[j].sales, monthly[i].sales)
                /\ \A j \in 1..i - 1 : monthly[j].sales # monthly[i].sales].periode

\* lines 632-641
TemporelResponse(monthly, result) ==
    [endpoint |-> "get_temporel_avance",
     data |-> result,
     annees_disponibles |->
         SetToSeq({monthly[k].year : k \in 1..Len(monthly)}, LAMBDA a, b : a < b),
     statistiques |->
         [ca_moyen_mensuel |->
              Round(Frac(SumSeq(monthly, LAMBDA b : b.sales), Len(monthly)), 2),
          croissance_moyenne |->
              Round(DivInt(SumFrac([k \in 1..Len(result) |-> result[k].croissance]),
                           Len(result)), 2),
          meilleur_mois |-> FirstExtreme(monthly, LAMBDA a, b : a > b),
          pire_mois |-> FirstExtreme(monthly, LAMBDA a, b : a < b)]]

\* get_temporel_avance on a non-empty table (idxmax raises on an empty one)
get_temporel_avance ==
    /\ df # <<>>
    /\ \E monthly \in {Monthly(df)} :
       \E result \in {TemporelRecords(monthly)} :
           resp' = TemporelResponse(monthly, result)
    /\ UNCHANGED df

----------------------------------------------------------------------------
(* Tables of at most NMonthLines order lines: line k, when present, is of  *)
(* the k-th month of SeriesMonths (counted cyclically).                    *)

NMonthLines == 4

SeriesMonths == <<DaysFromCivil(2016, 3, 15), DaysFromCivil(2016, 4, 15),
                  DaysFromCivil(2017, 3, 15), DaysFromCivil(2017, 4, 15)>>

\* the sales of a line when it is present
MonthSales == {0, 50, 100}

MonthProfits == {0 - 10, 20}

MonthRow(k, sales, profit) ==
    [BaseRow EXCEPT !.oid = k, !.prod = k,
                    !.odate = SeriesMonths[((k - 1) % Len(SeriesMonths)) + 1],
                    !.sdate = SeriesMonths[((k - 1) % Len(SeriesMonths)) + 1] + 2,
                    !.sales = sales, !.profit = profit]

InitMonths ==
    /\ \E v \in [1..NMonthLines -> MonthSales \cup {Absent}],
          p \in [1..NMonthLines -> MonthProfits] :
           /\ \A k \in 1..NMonthLines : v[k] = Absent => p[k] = 20
           /\ \E k \in 1..NMonthLines : v[k] # Absent
           /\ df = Concat([k \in 1..NMonthLines |->
                      IF v[k] = Absent THEN <<>> ELSE <<MonthRow(k, v[k], p[k])>>])
    /\ resp = NoResponse

NextTemporel == get_temporel_avance

SpecTemporel == InitMonths /\ [][NextTemporel]_vars

----------------------------------------------------------------------------
(* Tables of NFilterLines order lines: the first line is of one of three   *)
(* consecutive days and the others of one of two, each line of one of the  *)
(* two profiles of category, region and segment of its rank.               *)

NFilterLines == 2

FilterDates(k) ==
    IF k = 1 THEN {DaysFromCivil(2017, 3, 14), DaysFromCivil(2017, 3, 15),
                   DaysFromCivil(2017, 3, 16)}
    ELSE {DaysFromCivil(2017, 3, 15), DaysFromCivil(2017, 3, 16)}

FilterProfiles(k) ==
    IF k % 2 = 1
    THEN {[cat |-> "Furniture", region |-> "West", segment |-> "Consumer"],
          [cat |-> "Furniture", region |-> "East", segment |-> "Corporate"]}
    ELSE {[cat |-> "Technology", region |-> "West", segment |-> "Consumer"],
          [cat |-> "Furniture", region |-> "West", segment |-> "Corporate"]}

FilterRow(k, date, profile) ==
    [BaseRow EXCEPT !.oid = k, !.cid = k, !.prod = k, !.odate = date,
                    !.sdate = date + 2, !.cat = profile.cat,
                    !.subcat = IF profile.cat = "Furniture" THEN "Chairs" ELSE "Phones",
                    !.region = profile.region, !.segment = profile.segment,
                    !.sales = 10 * k, !.profit = k]

InitFilterLines ==
    /\ \E d \in [1..NFilterLines -> FilterDates(1)],
          f \in [1..NFilterLines -> FilterProfiles(1) \cup FilterProfiles(2)] :
           /\ \A k \in 1..NFilterLines : d[k] \in FilterDates(k) /\ f[k] \in FilterProfiles(k)
           /\ df = [k \in 1..NFilterLines |-> FilterRow(k, d[k], f[k])]
    /\ resp = NoResponse

NextFilter == get_kpi_globaux

SpecFilter == InitFilterLines /\ [][NextFilter]_vars

----------------------------------------------------------------------------
(* GET /kpi/temporel, /kpi/geographique and /kpi/remises/impact            *)

\* lines 549-554: strftime('%Y-%m-%d'), '%Y-%m' or '%Y' as the tuple of its
\* numbers, which sorts as the zero-padded string does
PeriodeOf(day, periode) ==
    LET c == CivilFromDays(day)
    IN  IF periode = "jour" THEN <<c.y, c.m, c.d>>
        ELSE IF periode = "mois" THEN <<c.y, c.m>>
        ELSE <<c.y>>

\* the order of two periods of the same granularity
PeriodeBefore(a, b) ==
    \E k \in 1..Len(a) : a[k] < b[k] /\ \A j \in 1..k - 1 : a[j] = b[j]

\* lines 556-565
EvolutionTemporelle(t, periode) ==
    LET keys == SetToSeq({PeriodeOf(t[i].odate, periode) : i \in 1..Len(t)},
                         PeriodeBefore)
    IN  [k \in 1..Len(keys) |->
            LET rows == SelectSeq(t, LAMBDA r : PeriodeOf(r.odate, periode) = keys[k])
            IN  [periode |-> keys[k],
                 ca |-> SumSeq(rows, Sales),
                 profit |-> SumSeq(rows, Profit),
                 nb_commandes |-> NUniqueOrders(rows),
                 quantite |-> SumSeq(rows, Quantity)]]

\* periode: Query('mois', regex='^(jour|mois|annee)$')
Periodes == {"jour", "mois", "annee"}

get_evolution_temporelle ==
    /\ \E periode \in Periodes :
           resp' = [endpoint |-> "get_evolution_temporelle", periode |-> periode,
                    data |-> EvolutionTemporelle(df, periode)]
    /\ UNCHANGED df

\* lines 648-655, before the sort
PerformanceGeographique(t) ==
    LET regions == SetToSeq({t[i].region : i \in 1..Len(t)},
                            LAMBDA a, b : StrRank(a) < StrRank(b))
    IN  [k \in 1..Len(regions) |->
            LET rows == SelectSeq(t, LAMBDA r : r.region = regions[k])
            IN  [region |-> regions[k],
                 ca |-> SumSeq(rows, Sales),
                 profit |-> SumSeq(rows, Profit),
                 nb_clients |-> Cardinality({rows[i].cid : i \in 1..Len(rows)}),
                 nb_commandes |-> NUniqueOrders(rows)]]

get_performance_geographique ==
    /\ \E sorted \in SortValuesDesc(PerformanceGeographique(df), LAMBDA g : g.ca) :
           resp' = [endpoint |-> "get_performance_geographique", data |-> sorted]
    /\ UNCHANGED df

\* Discount * 100 in binary floating point, for a discount of disc
\* hundredths: 0.15 * 100 is 15.000000000000002, the other discounts of the
\* tables give the integer
DiscountTimes100(disc) ==
    IF disc = 15 THEN Frac(1500000001, 100000000) ELSE FromInt(disc)

\* brackets without include_lowest: a discount of 0 is in no bracket
tranche_discount_open(disc) ==
    LET v == DiscountTimes100(disc)
    IN  IF Gt(v, FromInt(0)) /\ Le(v, FromInt(5)) THEN "0-5%"
        ELSE IF Gt(v, FromInt(5)) /\ Le(v, FromInt(10)) THEN "5-10%"
        ELSE IF Gt(v, FromInt(10)) /\ Le(v, FromInt(15)) THEN "10-15%"
        ELSE IF Gt(v, FromInt(15)) /\ Le(v, FromInt(20)) THEN "15-20%"
        ELSE IF Gt(v, FromInt(20)) /\ Le(v, FromInt(100)) THEN ">20%"
        ELSE "NaN"

\* lines 1321-1326: pd.cut(Discount * 100, bins=[0, 5, 10, 15, 20, 100],
\* include_lowest=True); a value in no bracket is NaN
tranche_discount(disc) ==
    LET v == DiscountTimes100(disc)
    IN  IF Ge(v, FromInt(0)) /\ Le(v, FromInt(5)) THEN "0-5%"
        ELSE IF Gt(v, FromInt(5)) /\ Le(v, FromInt(10)) THEN "5-10%"
        ELSE IF Gt(v, FromInt(10)) /\ Le(v, FromInt(15)) THEN "10-15%"
        ELSE IF Gt(v, FromInt(15)) /\ Le(v, FromInt(20)) THEN "15-20%"
        ELSE IF Gt(v, FromInt(20)) /\ Le(v, FromInt(100)) THEN ">20%"
        ELSE "NaN"

\* the brackets in the order of the categorical
Tranches == <<"0-5%", "5-10%", "10-15%", "15-20%", ">20%">>

\* lines 1329-1350: groupby('tranche_discount', observed=True) leaves the
\* rows of no bracket out
ImpactParTranche(t) ==
    LET present == SelectSeq(Tranches,
            LAMBDA g : \E i \in 1..Len(t) : tranche_discount(t[i].disc) = g)
    IN  [k \in 1..Len(present) |->
            LET rows == SelectSeq(t, LAMBDA r : tranche_discount(r.disc) = present[k])
                sales == SumSeq(rows, Sales)
                profit == SumSeq(rows, Profit)
            IN  [tranche_discount |-> present[k],
                 nb_commandes |-> NUniqueOrders(rows),
                 ca_total |-> Round(FromInt(sales), 2),
                 profit_total |-> Round(FromInt(profit), 2),
                 marge_pct |-> Round(ReplaceInfFillna(Frac(profit * 100, sales)), 2),
                 ca_moyen |-> Round(Frac(sales, NUniqueOrders(rows)), 2),
                 quantite |-> SumSeq(rows, Quantity)]]

\* lines 1353-1370
ImpactStatistiques(t) ==
    LET avec == SelectSeq(t, LAMBDA r : r.disc > 0)
        sans == SelectSeq(t, LAMBDA r : r.disc = 0)
        ca_total == SumSeq(t, Sales)
        ca_avec_discount == SumSeq(avec, Sales)
        ca_sans_discount == SumSeq(sans, Sales)
    IN  [ca_avec_discount |-> Round(FromInt(ca_avec_discount), 2),
         profit_avec_discount |-> Round(FromInt(SumSeq(avec, Profit)), 2),
         marge_avec_discount |->
             IF ca_avec_discount > 0
             THEN Round(Frac(SumSeq(avec, Profit) * 100, ca_avec_discount), 2)
             ELSE Zero,
         ca_sans_discount |-> Round(FromInt(ca_sans_discount), 2),
         profit_sans_discount |-> Round(FromInt(SumSeq(sans, Profit)), 2),
         marge_sans_discount |->
             IF ca_sans_discount > 0
             THEN Round(Frac(SumSeq(sans, Profit) * 100, ca_sans_discount), 2)
             ELSE Zero,
         pct_ca_avec_discount |-> Round(Frac(ca_avec_discount * 100, ca_total), 2)]

get_impact_remises ==
    /\ resp' = [endpoint |-> "get_impact_remises",
                data |-> ImpactParTranche(df),
                statistiques |-> ImpactStatistiques(df)]
    /\ UNCHANGED df

----------------------------------------------------------------------------
(* Tables of NGroupLines order lines, each of one of two days, one of two  *)
(* amounts and one of three profiles of category, region and discount (in  *)
(* hundredths).                                                            *)

NGroupLines == 2

GroupDates == {DaysFromCivil(2016, 12, 31), DaysFromCivil(2017, 3, 15)}

GroupSales == {10, 25}

GroupProfiles ==
    {[cat |-> "Furniture", region |-> "East", disc |-> 0],
     [cat |-> "Furniture", region |-> "West", disc |-> 15],
     [cat |-> "Technology", region |-> "West", disc |-> 30]}

GroupRow(k, date, sales, profile) ==
    [BaseRow EXCEPT !.oid = k, !.cid = (k + 1) \div 2, !.prod = (k + 1) \div 2,
                    !.odate = date, !.sdate = date + 2,
                    !.cat = profile.cat,
                    !.subcat = IF profile.cat = "Furniture" THEN "Chairs" ELSE "Phones",
                    !.region = profile.region, !.disc = profile.disc,
                    !.sales = sales]

InitGroupLines ==
    /\ \E d \in [1..NGroupLines -> GroupDates], v \in [1..NGroupLines -> GroupSales],
          f \in [1..NGroupLines -> GroupProfiles] :
           df = [k \in 1..NGroupLines |-> GroupRow(k, d[k], v[k], f[k])]
    /\ resp = NoResponse

NextGroups ==
    \/ get_evolution_temporelle
    \/ get_performance_categories
    \/ get_performance_geographique
    \/ get_impact_remises
    \/ get_analyse_abc

SpecGroups == InitGroupLines /\ [][NextGroups]_vars

----------------------------------------------------------------------------
(* GET /kpi/produits/top, /kpi/geographique/villes and /kpi/clients        *)

\* lines 193-197: one record per (Product Name, Category), in key order
ProduitsGroups(t) ==
    LET keys == SetToSeq({<<t[i].prod, StrRank(t[i].cat)>> : i \in 1..Len(t)},
                         AbcKeyBefore)
    IN  [k \in 1..Len(keys) |->
            LET rows == SelectSeq(t, LAMBDA r : <<r.prod, StrRank(r.cat)>> = keys[k])
            IN  [produit |-> keys[k][1], categorie |-> rows[1].cat,
                 Sales |-> SumSeq(rows, Sales),
                 Quantity |-> SumSeq(rows, Quantity),
                 Profit |-> SumSeq(rows, Profit)]]

\* lines 199-204: the column of the sort
TriPar(tri_par, g) ==
    IF tri_par = "ca" THEN g.Sales
    ELSE IF tri_par = "profit" THEN g.Profit
    ELSE g.Quantity

\* the last limite records of the sort instead of the first
TopProduitsLast(sorted, limite) ==
    LET top == Tail_(sorted, limite)
    IN  [i \in 1..Len(top) |->
            [produit |-> top[i].produit,
             categorie |-> top[i].categorie,
             ca |-> Round(FromInt(top[i].Sales), 2),
             quantite |-> top[i].Quantity,
             profit |-> Round(FromInt(top[i].Profit), 2)]]

\* lines 206-216
TopProduits(sorted, limite) ==
    LET top == Head_(sorted, limite)
    IN  [i \in 1..Len(top) |->
            [produit |-> top[i].produit,
             categorie |-> top[i].categorie,
             ca |-> Round(FromInt(top[i].Sales), 2),
             quantite |-> top[i].Quantity,
             profit |-> Round(FromInt(top[i].Profit), 2)]]

\* limite: int = Query(10, ge=1, le=50); the values requested here
LimitesProduits == {1, 5}

\* tri_par: Query("ca", regex="^(ca|profit|quantite)$")
TrisPar == {"ca", "profit", "quantite"}

\* the answer of get_top_produits with the locals of the handler
TopProduitsResponse(limite, tri_par, produits, sorted) ==
    [endpoint |-> "get_top_produits", limite |-> limite,
     tri_par |-> tri_par, produits |-> produits,
     data |-> TopProduits(sorted, limite)]

get_top_produits ==
    /\ \E limite \in LimitesProduits, tri_par \in TrisPar, produits \in {ProduitsGroups(df)} :
       \E sorted \in SortValuesDesc(produits, LAMBDA g : TriPar(tri_par, g)) :
           resp' = TopProduitsResponse(limite, tri_par, produits, sorted)
    /\ UNCHANGED df

CityKeyBefore(a, b) ==
    \/ a[1] < b[1]
    \/ a[1] = b[1] /\ a[2] < b[2]
    \/ a[1] = b[1] /\ a[2] = b[2] /\ a[3] < b[3]

\* lines 726-734: one record per (City, State, Region), in key order
Cities(t) ==
    LET keys == SetToSeq({<<t[i].city, t[i].state, StrRank(t[i].region)>> :
                             i \in 1..Len(t)}, CityKeyBefore)
    IN  [k \in 1..Len(keys) |->
            LET rows == SelectSeq(t,
                    LAMBDA r : <<r.city, r.state, StrRank(r.region)>> = keys[k])
                sales == SumSeq(rows, Sales)
                profit == SumSeq(rows, Profit)
                clients == Cardinality({rows[i].cid : i \in 1..Len(rows)})
            IN  [ville |-> keys[k][1], etat |-> keys[k][2], region |-> rows[1].region,
                 Sales |-> sales, Profit |-> profit,
                 nb_clients |-> clients,
                 marge_pct |-> ReplaceInfFillna(Frac(profit * 100, sales)),
                 ca_par_client |-> ReplaceInfFillna(Frac(sales, clients))]]

\* lines 737-750: nlargest(limite, 'Sales') keeps the first of equal values
TopVilles(cities, limite) ==
    LET top_ca == Head_(SortBy(cities, LAMBDA a, b : a.Sales > b.Sales), limite)
    IN  [i \in 1..Len(top_ca) |->
            [ville |-> top_ca[i].ville,
             etat |-> top_ca[i].etat,
             region |-> top_ca[i].region,
             ca |-> Round(FromInt(top_ca[i].Sales), 2),
             profit |-> Round(FromInt(top_ca[i].Profit), 2),
             marge_pct |-> Round(top_ca[i].marge_pct, 2),
             nb_clients |-> top_ca[i].nb_clients,
             ca_par_client |-> Round(top_ca[i].ca_par_client, 2)]]

\* limite: int = Query(20, ge=5, le=100); the values requested here
LimitesVilles == {5, 20}

get_top_villes ==
    /\ \E limite \in LimitesVilles, cities \in {Cities(df)} :
           resp' = [endpoint |-> "get_top_villes", limite |-> limite,
                    cities |-> cities,
                    top_ca |-> TopVilles(cities, limite),
                    statistiques |->
                        [nb_villes_total |-> Len(cities),
                         ca_moyen_ville |->
                             Round(Frac(SumSeq(cities, LAMBDA c : c.Sales),
                                        Len(cities)), 2),
                         clients_moyen_ville |->
                             Round(Frac(SumSeq(cities, LAMBDA c : c.nb_clients),
                                        Len(cities)), 2)]]
    /\ UNCHANGED df

\* lines 1092-1100: one record per Customer ID, in key order (the name of a
\* customer is that of the first of the rows)
Clients(t) ==
    LET ids == Customers(t)
    IN  [k \in 1..Len(ids) |->
            LET rows == SelectSeq(t, LAMBDA r : r.cid = ids[k])
                ca_total == SumSeq(rows, Sales)
            IN  [customer_id |-> ids[k],
                 ca_total |-> ca_total,
                 profit_total |-> SumSeq(rows, Profit),
                 nb_commandes |-> NUniqueOrders(rows),
                 nom |-> rows[1].cid,
                 valeur_commande_moy |-> Round(Frac(ca_total, NUniqueOrders(rows)), 2)]]

\* lines 1104-1109
Recurrence(clients) ==
    [clients_1_achat |-> Len(SelectSeq(clients, LAMBDA c : c.nb_commandes = 1)),
     clients_recurrents |-> Len(SelectSeq(clients, LAMBDA c : c.nb_commandes > 1)),
     nb_commandes_moyen |->
         Round(Frac(SumSeq(clients, LAMBDA c : c.nb_commandes), Len(clients)), 2),
     total_clients |-> Len(clients)]

\* lines 1111-1116
SegmentsClients(t) ==
    LET segs == SetToSeq({t[i].segment : i \in 1..Len(t)},
                         LAMBDA a, b : StrRank(a) < StrRank(b))
    IN  [k \in 1..Len(segs) |->
            LET rows == SelectSeq(t, LAMBDA r : r.segment = segs[k])
            IN  [segment |-> segs[k],
                 ca |-> SumSeq(rows, Sales),
                 profit |-> SumSeq(rows, Profit),
                 nb_clients |-> Cardinality({rows[i].cid : i \in 1..Len(rows)})]]

\* limite: int = Query(10, ge=1, le=100); the values requested here
LimitesClients == {1, 10}

get_analyse_clients ==
    /\ \E limite \in LimitesClients, clients \in {Clients(df)} :
       \E sorted \in SortValuesDesc(clients, LAMBDA c : c.ca_total) :
           resp' = [endpoint |-> "get_analyse_clients", limite |-> limite,
                    clients |-> clients,
                    top_clients |-> Head_(sorted, limite),
                    recurrence |-> Recurrence(clients),
                    segments |-> SegmentsClients(df)]
    /\ UNCHANGED df

----------------------------------------------------------------------------
(* Tables for the top-N endpoints: NTopLines order lines, each of one of   *)
(* two products (with its customer and its city), one of two years and one *)
(* of two amounts; a table may also hold one line of 2017 for each of      *)
(* NOtherProducts further products, of amounts, profits and quantities     *)
(* that all differ, so that there are more products, customers and cities  *)
(* than the smallest limite of every endpoint.                             *)

NTopLines == 2

NOtherProducts == 10

TopYears == {2016, 2017}

TopSales == {10, 20}

TopRow(k, e, year, sales) ==
    [BaseRow EXCEPT !.oid = k, !.cid = e, !.prod = e, !.city = e,
                    !.odate = DaysFromCivil(year, 3, 15),
                    !.sdate = DaysFromCivil(year, 3, 17),
                    !.sales = sales]

OtherProducts ==
    [j \in 1..NOtherProducts |->
        [TopRow(100 + j, 2 + j, 2017, 10 + 2 * j) EXCEPT !.profit = 3 + j,
                                                          !.qty = 2 + j]]

InitTop ==
    /\ \E e \in [1..NTopLines -> {1, 2}], y \in [1..NTopLines -> TopYears],
          v \in [1..NTopLines -> TopSales], others \in BOOLEAN :
           df = [k \in 1..NTopLines |-> TopRow(k, e[k], y[k], v[k])]
                \o (IF others THEN OtherProducts ELSE <<>>)
    /\ resp = NoResponse

NextTop ==
    \/ get_top_produits
    \/ get_top_villes
    \/ get_analyse_clients
    \/ get_customer_lifetime_value
    \/ get_bcg_matrix

SpecTop == InitTop /\ [][NextTop]_vars

----------------------------------------------------------------------------
(* The two endpoints that sort products with sort_values, on the tables of *)
(* the ABC analysis, where products may have equal amounts.                *)

NextTies ==
    \/ get_analyse_abc
    \/ get_top_produits

SpecTies == InitABC /\ [][NextTies]_vars

----------------------------------------------------------------------------
(* The validation of the query parameters declared with Query(...), which  *)
(* runs before the handler is called.                                      *)

\* Query(regex='^(a|b|c)$') on a string: with Python's re.match the anchor $
\* also matches before a newline that ends the string; with a pattern
\* engine whose $ is the end of the text only the alternatives match
RegexMatches(engine, alternatives, value) ==
    \/ value \in alternatives
    \/ engine = "re" /\ \E a \in alternatives : value = a \o "\n"

\* the engines the installed validation library may match with
RegexEngines == {"re", "pattern"}

\* Query(ge=lo, le=hi) on an int
InRange(lo, hi, value) == lo <= value /\ value <= hi

\* the answer to a request whose parameters are not valid: the handler is
\* not called
ValidationError(endpoint, params) ==
    [endpoint |-> endpoint, status |-> 422, params |-> params]

\* the answer of a handler that was called with params
Answered(params, body) ==
    [endpoint |-> body.endpoint, status |-> 200, params |-> params, body |-> body]

\* the values of limite and tri_par requested of /kpi/produits/top
RequestedLimites == {0, 1, 50, 51}

RequestedTrisPar == {"ca", "quantite", "ca\n", "prix"}

\* lines 187-191 and the call of get_top_produits
route_top_produits ==
    /\ \E limite \in RequestedLimites, tri_par \in RequestedTrisPar,
          engine \in RegexEngines :
       LET params == [limite |-> limite, tri_par |-> tri_par, engine |-> engine]
       IN  IF /\ InRange(1, 50, limite)
              /\ RegexMatches(engine, {"ca", "profit", "quantite"}, tri_par)
           THEN \E produits \in {ProduitsGroups(df)} :
                \E sorted \in SortValuesDesc(produits, LAMBDA g : TriPar(tri_par, g)) :
                    resp' = Answered(params,
                                TopProduitsResponse(limite, tri_par, produits, sorted))
           ELSE resp' = ValidationError("get_top_produits", params)
    /\ UNCHANGED df

\* the values of periode requested of /kpi/temporel
RequestedPeriodes == {"jour", "mois", "mois\n", "semaine"}

\* lines 541-544 and the call of get_evolution_temporelle
route_evolution_temporelle ==
    /\ \E periode \in RequestedPeriodes, engine \in RegexEngines :
       LET params == [periode |-> periode, engine |-> engine]
       IN  IF RegexMatches(engine, {"jour", "mois", "annee"}, periode)
           THEN resp' = Answered(params,
                            [endpoint |-> "get_evolution_temporelle",
                             periode |-> periode,
                             data |-> EvolutionTemporelle(df, periode)])
           ELSE resp' = ValidationError("get_evolution_temporelle", params)
    /\ UNCHANGED df

\* the values of niveau requested of /kpi/analyse-abc
RequestedNiveaux == {"produit", "categorie", "categorie\n", "region"}

\* lines 1126-1127 and the call of get_analyse_abc
route_analyse_abc ==
    /\ \E niveau \in RequestedNiveaux, engine \in RegexEngines :
       LET params == [niveau |-> niveau, engine |-> engine]
       IN  IF RegexMatches(engine, {"produit", "categorie", "client"}, niveau)
           THEN \E sorted \in SortValuesDesc(AbcGroups(df, niveau), LAMBDA r : r.ca) :
                    resp' = Answered(params, AbcResponse(niveau, sorted))
           ELSE resp' = ValidationError("get_analyse_abc", params)
    /\ UNCHANGED df

----------------------------------------------------------------------------
(* Tables of NRouteLines order lines, one per product, each of one of two  *)
(* days and one of two amounts.                                            *)

NRouteLines == 2

InitRouteLines ==
    /\ \E d \in [1..NRouteLines -> GroupDates], v \in [1..NRouteLines -> GroupSales] :
           df = [k \in 1..NRouteLines |->
                    [GroupRow(k, d[k], v[k],
                              [cat |-> IF k % 2 = 1 THEN "Furniture" ELSE "Technology",
                               region |-> "East", disc |-> 0])
                     EXCEPT !.prod = k, !.cid = k, !.qty = k]]
    /\ resp = NoResponse

NextRoutes ==
    \/ route_top_produits
    \/ route_evolution_temporelle
    \/ route_analyse_abc

SpecRoutes == InitRouteLines /\ [][NextRoutes]_vars

----------------------------------------------------------------------------
(* GET /kpi/clients/delai-rachat                                           *)

\* lines 865-873: one row per customer and order date, that of the smallest
\* Order ID, sorted by customer and date
PurchaseDays(t) ==
    LET keys == SetToSeq({<<t[i].cid, t[i].odate>> : i \in 1..Len(t)},
                         LAMBDA a, b : a[1] < b[1] \/ (a[1] = b[1] /\ a[2] < b[2]))
    IN  [k \in 1..Len(keys) |->
            LET rows == SelectSeq(t, LAMBDA r : <<r.cid, r.odate>> = keys[k])
                first == CHOOSE i \in 1..Len(rows) :
                             \A j \in 1..Len(rows) : rows[i].oid <= rows[j].oid
            IN  [cid |-> keys[k][1], odate |-> keys[k][2],
                 segment |-> rows[first].segment]]

\* lines 876-883: the days since the order before of the same customer, for
\* the rows that have one, when more than 0
Delais(df_sorted) ==
    LET later == SelectSeq([k \in 1..Len(df_sorted) |-> k],
                     LAMBDA k : k > 1 /\ df_sorted[k - 1].cid = df_sorted[k].cid
                                /\ df_sorted[k].odate - df_sorted[k - 1].odate > 0)
    IN  [i \in 1..Len(later) |->
            [cid |-> df_sorted[later[i]].cid,
             segment |-> df_sorted[later[i]].segment,
             days_since_last_order |->
                 df_sorted[later[i]].odate - df_sorted[later[i] - 1].odate]]

\* Series.mean() of the days of rows
MeanDays(rows) == Frac(SumSeq(rows, LAMBDA r : r.days_since_last_order), Len(rows))

MedianDays(rows) ==
    Median([i \in 1..Len(rows) |-> FromInt(rows[i].days_since_last_order)])

\* lines 905-909
SegmentDelais(delais) ==
    LET segs == SetToSeq({delais[i].segment : i \in 1..Len(delais)},
                         LAMBDA a, b : StrRank(a) < StrRank(b))
    IN  [k \in 1..Len(segs) |->
            LET rows == SelectSeq(delais, LAMBDA r : r.segment = segs[k])
            IN  [segment |-> segs[k],
                 delai_moyen |-> MeanDays(rows),
                 delai_median |-> MedianDays(rows),
                 nb_rachats |-> Len(rows)]]

\* lines 912-916: pd.cut(bins=[0, 30, 60, 90, 180, 365, 999999]), the
\* brackets open on the left and closed on the right
delai_bin(days) ==
    IF 0 < days /\ days <= 30 THEN "<30j"
    ELSE IF 30 < days /\ days <= 60 THEN "30-60j"
    ELSE IF 60 < days /\ days <= 90 THEN "60-90j"
    ELSE IF 90 < days /\ days <= 180 THEN "90-180j"
    ELSE IF 180 < days /\ days <= 365 THEN "180-365j"
    ELSE IF 365 < days /\ days <= 999999 THEN ">365j"
    ELSE "NaN"

DelaiLabels == <<"<30j", "30-60j", "60-90j", "90-180j", "180-365j", ">365j">>

\* line 918: value_counts().sort_index() of the categorical, every label
\* with its count
DelaiDistribution(delais) ==
    [k \in 1..Len(DelaiLabels) |->
        [tranche |-> DelaiLabels[k],
         n |-> Len(SelectSeq(delais,
                   LAMBDA r : delai_bin(r.days_since_last_order) = DelaiLabels[k]))]]

\* lines 887-897 and 920-928: the body of the answer
DelaiRachatBody(delais) ==
    IF Len(delais) = 0
    THEN [statistiques |-> [delai_moyen_jours |-> Zero,
                            delai_median_jours |-> Zero,
                            nb_rachats_total |-> 0],
          par_segment |-> <<>>,
          distribution |-> <<>>]
    ELSE [statistiques |->
              [delai_moyen_jours |-> Round(MeanDays(delais), 1),
               delai_median_jours |-> Round(MedianDays(delais), 1),
               nb_rachats_total |-> Len(delais)],
          par_segment |-> SegmentDelais(delais),
          distribution |-> DelaiDistribution(delais)]

\* the answer is body; delais is the local of the handler
get_delai_rachat ==
    /\ \E delais \in {Delais(PurchaseDays(df))} :
           resp' = [endpoint |-> "get_delai_rachat", delais |-> delais,
                    body |-> DelaiRachatBody(delais)]
    /\ UNCHANGED df

----------------------------------------------------------------------------
(* Tables of NRepeatCustomers customers of one segment each, with a first  *)
(* order and possibly a second one some days later (0: the same day).      *)

NRepeatCustomers == 2

RepeatAfter == {Absent, 0, 1, 30, 31, 90, 400}

RepeatSegments == {"Consumer", "Corporate"}

RepeatRows(c, after, segment) ==
    LET first == [BaseRow EXCEPT !.oid = 2 * c - 1, !.cid = c, !.segment = segment,
                                 !.odate = DaysFromCivil(2016, 1, 10 + c),
                                 !.sdate = DaysFromCivil(2016, 1, 12 + c)]
    IN  IF after = Absent THEN <<first>>
        ELSE <<first, [first EXCEPT !.oid = 2 * c, !.odate = first.odate + after,
                                    !.sdate = first.sdate + after]>>

InitRepeat ==
    /\ \E a \in [1..NRepeatCustomers -> RepeatAfter],
          g \in [1..NRepeatCustomers -> RepeatSegments] :
           df = Concat([c \in 1..NRepeatCustomers |-> RepeatRows(c, a[c], g[c])])
    /\ resp = NoResponse

NextRepeat == get_delai_rachat

SpecRepeat == InitRepeat /\ [][NextRepeat]_vars

----------------------------------------------------------------------------
(* GET /kpi/commandes/deficitaires                                         *)

\* the values of a sequence without repetition, in the order they first
\* appear: Series.unique()
Unique(s) ==
    LET firsts == SelectSeq([i \in 1..Len(s) |-> i],
                      LAMBDA i : \A j \in 1..i - 1 : s[j] # s[i])
    IN  [k \in 1..Len(firsts) |-> s[firsts[k]]]

\* lines 1267-1277: one record per Order ID, in key order
Commandes(t) ==
    LET ids == SetToSeq({t[i].oid : i \in 1..Len(t)}, LAMBDA a, b : a < b)
    IN  [k \in 1..Len(ids) |->
            LET rows == SelectSeq(t, LAMBDA r : r.oid = ids[k])
                sales == SumSeq(rows, Sales)
                profit == SumSeq(rows, Profit)
            IN  [order_id |-> ids[k],
                 Sales |-> sales,
                 Profit |-> profit,
                 Quantity |-> SumSeq(rows, Quantity),
                 Discount |-> Frac(SumSeq(rows, LAMBDA r : r.disc), Len(rows)),
                 date |-> rows[1].odate,
                 client |-> rows[1].cid,
                 categories |-> Unique([i \in 1..Len(rows) |-> rows[i].cat]),
                 marge_pct |-> ReplaceInfFillna(Frac(profit * 100, sales))]]

\* the orders of profit 0 counted with the orders in deficit
DeficitairesOrZero(commandes) == SelectSeq(commandes, LAMBDA c : c.Profit <= 0)

\* line 1280: commandes[commandes['Profit'] < 0]
Deficitaires(commandes) == SelectSeq(commandes, LAMBDA c : c.Profit < 0)

\* lines 1283-1296
DeficitRecords(top) ==
    [i \in 1..Len(top) |->
        [order_id |-> top[i].order_id,
         date |-> PeriodeOf(top[i].date, "jour"),
         client |-> top[i].client,
         categories |-> top[i].categories,
         ca |-> Round(FromInt(top[i].Sales), 2),
         profit |-> Round(FromInt(top[i].Profit), 2),
         perte_abs |-> Round(FromInt(Abs(top[i].Profit)), 2),
         marge_pct |-> Round(top[i].marge_pct, 2),
         quantite |-> top[i].Quantity,
         discount_moyen |-> Round(top[i].Discount, 2)]]

\* lines 1299-1309: total_perte is that of the orders kept by head(limite)
DeficitStatistiques(commandes, top) ==
    LET total_perte == Abs(SumSeq(top, LAMBDA c : c.Profit))
        nb_total_deficitaires == Len(Deficitaires(commandes))
    IN  [nb_commandes_deficitaires |-> nb_total_deficitaires,
         perte_totale |-> Round(FromInt(total_perte), 2),
         perte_moyenne |->
             IF nb_total_deficitaires > 0
             THEN Round(Frac(total_perte, nb_total_deficitaires), 2)
             ELSE Zero,
         pct_commandes_deficitaires |->
             Round(Frac(nb_total_deficitaires * 100, Len(commandes)), 2)]

\* limite: int = Query(50, ge=10, le=200); the values requested here
LimitesDeficit == {10, 50}

\* sort_values('Profit', ascending=True).head(limite)
get_commandes_deficitaires ==
    /\ df # <<>>
    /\ \E limite \in LimitesDeficit, commandes \in {Commandes(df)} :
       \E sorted \in SortValuesDesc(Deficitaires(commandes), LAMBDA c : 0 - c.Profit) :
       \E top \in {Head_(sorted, limite)} :
           resp' = [endpoint |-> "get_commandes_deficitaires", limite |-> limite,
                    data |-> DeficitRecords(top),
                    statistiques |-> DeficitStatistiques(commandes, top)]
    /\ UNCHANGED df

----------------------------------------------------------------------------
(* Tables of NDeficitLines order lines: line k is of order k or of order   *)
(* 1, with one of two pairs of amount and profit; the first pairs of lines *)
(* 1, 2 and 3 are the orders A (100, 20), B (200, -10) and C (50, 5).  A   *)
(* table may also hold NOtherOrders further orders, all in deficit, of     *)
(* profits that all differ.                                                *)

NDeficitLines == 3

NOtherOrders == 10

DeficitAmounts(k) ==
    IF k = 1 THEN {<<100, 20>>, <<100, 0 - 30>>}
    ELSE IF k = 2 THEN {<<200, 0 - 10>>, <<200, 0>>}
    ELSE IF k = 3 THEN {<<50, 5>>, <<50, 0 - 5>>}
    ELSE {<<10, 1>>, <<10, 0 - 1>>}

DeficitRow(k, oid, amounts) ==
    [BaseRow EXCEPT !.oid = oid, !.cid = oid, !.prod = k,
                    !.sales = amounts[1], !.profit = amounts[2]]

OtherOrders ==
    [j \in 1..NOtherOrders |-> DeficitRow(100 + j, 100 + j, <<10, 0 - (100 + j)>>)]

InitDeficit ==
    /\ \E o \in [1..NDeficitLines -> BOOLEAN],
          a \in [1..NDeficitLines -> UNION {DeficitAmounts(k) : k \in 1..NDeficitLines}],
          others \in BOOLEAN :
           /\ \A k \in 1..NDeficitLines : a[k] \in DeficitAmounts(k)
           /\ o[1]
           /\ df = [k \in 1..NDeficitLines |->
                       DeficitRow(k, IF o[k] THEN k ELSE 1, a[k])]
                   \o (IF others THEN OtherOrders ELSE <<>>)
    /\ resp = NoResponse

NextDeficit ==
    \/ get_commandes_deficitaires
    \/ get_kpi_globaux

SpecDeficit == InitDeficit /\ [][NextDeficit]_vars

----------------------------------------------------------------------------
(* GET /kpi/livraisons/delais                                              *)

\* lines 1445-1449: pd.cut with bins [0, 2, 4, 7, 14, 30, 999], each closed
\* on the right and open on the left; a delay in no bin is NaN
delai_livraison_bin(days) ==
    IF 0 < days /\ days <= 2 THEN "0-2j"
    ELSE IF 2 < days /\ days <= 4 THEN "2-4j"
    ELSE IF 4 < days /\ days <= 7 THEN "4-7j"
    ELSE IF 7 < days /\ days <= 14 THEN "7-14j"
    ELSE IF 14 < days /\ days <= 30 THEN "14-30j"
    ELSE IF 30 < days /\ days <= 999 THEN ">30j"
    ELSE "NaN"

LivraisonLabels == <<"0-2j", "2-4j", "4-7j", "7-14j", "14-30j", ">30j">>

\* line 1451: value_counts().sort_index() of the categorical, every label
\* with its count
LivraisonDistribution(t) ==
    [k \in 1..Len(LivraisonLabels) |->
        [tranche |-> LivraisonLabels[k],
         n |-> Len(SelectSeq(t,
                   LAMBDA r : delai_livraison_bin(DelaiLivraison(r)) = LivraisonLabels[k]))]]

MeanDelai(rows) == Frac(SumSeq(rows, DelaiLivraison), Len(rows))

MedianDelai(rows) == Median([i \in 1..Len(rows) |-> FromInt(DelaiLivraison(rows[i]))])

MinDelai(rows) ==
    CHOOSE d \in {DelaiLivraison(rows[i]) : i \in 1..Len(rows)} :
        \A i \in 1..Len(rows) : d <= DelaiLivraison(rows[i])

MaxDelai(rows) ==
    CHOOSE d \in {DelaiLivraison(rows[i]) : i \in 1..Len(rows)} :
        \A i \in 1..Len(rows) : d >= DelaiLivraison(rows[i])

\* lines 1438-1442
DelaisParMode(t) ==
    LET modes == SetToSeq({t[i].mode : i \in 1..Len(t)},
                          LAMBDA a, b : StrRank(a) < StrRank(b))
    IN  [k \in 1..Len(modes) |->
            LET rows == SelectSeq(t, LAMBDA r : r.mode = modes[k])
            IN  [mode |-> modes[k],
                 delai_moyen |-> MeanDelai(rows),
                 delai_median |-> MedianDelai(rows),
                 delai_min |-> MinDelai(rows),
                 delai_max |-> MaxDelai(rows),
                 nb_commandes |-> Len(rows)]]

\* lines 1454-1458
DelaisParRegion(t) ==
    LET regions == SetToSeq({t[i].region : i \in 1..Len(t)},
                            LAMBDA a, b : StrRank(a) < StrRank(b))
    IN  [k \in 1..Len(regions) |->
            LET rows == SelectSeq(t, LAMBDA r : r.region = regions[k])
            IN  [region |-> regions[k],
                 delai_moyen |-> MeanDelai(rows),
                 delai_median |-> MedianDelai(rows)]]

\* int(delai_min) of an empty table raises: the table has a row
get_delais_livraison ==
    /\ df # <<>>
    /\ resp' = [endpoint |-> "get_delais_livraison",
                statistiques |-> [delai_moyen_jours |-> Round(MeanDelai(df), 1),
                                  delai_median_jours |-> Round(MedianDelai(df), 1),
                                  delai_min_jours |-> MinDelai(df),
                                  delai_max_jours |-> MaxDelai(df)],
                par_mode |-> DelaisParMode(df),
                par_region |-> DelaisParRegion(df),
                distribution |-> LivraisonDistribution(df)]
    /\ UNCHANGED df

----------------------------------------------------------------------------
(* Tables of NDelayLines order lines, each shipped one of DeliveryDelays    *)
(* days after the order (the edges of the bins, a day inside each bin and  *)
(* the same day), by one of two ship modes.                                *)

NDelayLines == 2

DeliveryDelays == {0, 1, 2, 3, 4, 7, 8, 14, 30, 31, 999}

DeliveryModes == {"Standard Class", "Same Day"}

InitDelays ==
    /\ \E m \in [1..NDelayLines -> DeliveryModes],
          d \in [1..NDelayLines -> DeliveryDelays] :
           df = [k \in 1..NDelayLines |-> ShipmentRow(k, m[k], d[k])]
    /\ resp = NoResponse

NextDelays == get_delais_livraison

SpecDelays == InitDelays /\ [][NextDelays]_vars

----------------------------------------------------------------------------
(* GET /data/commandes                                                     *)

\* the store replaced by the page that was read
CommandesStorePage(t, offset, limite) == SubSeq(t, offset + 1, MinOf(offset + limite, Len(t)))

\* lines 1625-1628: the dates are formatted in a copy of the page, the
\* store is left as it is
CommandesStore(t, offset, limite) == t

\* lines 1623-1634
CommandesBody(t, offset, limite) ==
    LET commandes == SubSeq(t, offset + 1, MinOf(offset + limite, Len(t)))
    IN  [endpoint |-> "get_commandes",
         total |-> Len(t),
         limite |-> limite,
         offset |-> offset,
         data |-> [i \in 1..Len(commandes) |->
                      [commandes[i] EXCEPT !.odate = PeriodeOf(@, "jour"),
                                           !.sdate = PeriodeOf(@, "jour")]]]

\* limite: Query(100, ge=1, le=1000), offset: Query(0, ge=0); the values
\* requested here
LimitesCommandes == {1, 100}

OffsetsCommandes == {0, 1, 2}

get_commandes ==
    \E limite \in LimitesCommandes, offset \in OffsetsCommandes :
        /\ resp' = CommandesBody(df, offset, limite)
        /\ df' = CommandesStore(df, offset, limite)

----------------------------------------------------------------------------
(* The process: the module body binds df at line 70 by calling load_data,  *)
(* and the requests are served once the module body has run to its end.    *)

\* the name df before line 70 has run
Unbound == <<[unbound |-> TRUE]>>

\* lines 50-60: the columns that load_data itself reads
RequiredColumns == {"Order Date", "Ship Date", "Order ID", "Customer ID", "Sales", "Profit"}

\* line 54: dropna(subset=['Order ID', 'Customer ID', 'Sales'])
HasRequiredFields(r) == r.oid # Absent /\ r.cid # Absent /\ r.sales # Absent

\* lines 57-60: the computed columns
WithComputedColumns(r) ==
    [oid |-> r.oid, cid |-> r.cid, odate |-> r.odate, sdate |-> r.sdate,
     mode |-> r.mode, prod |-> r.prod, cat |-> r.cat, subcat |-> r.subcat,
     region |-> r.region, segment |-> r.segment, city |-> r.city, state |-> r.state,
     sales |-> r.sales, qty |-> r.qty, disc |-> r.disc, profit |-> r.profit,
     Year |-> YearOf(r.odate), Month |-> MonthOf(r.odate),
     YearMonth |-> PeriodeOf(r.odate, "mois"),
     Marge_Pct |-> ReplaceInfFillna(Frac(r.profit * 100, r.sales))]

\* a load that answers a failure with an empty table
LoadDataOrEmpty(source) ==
    IF ~source.reachable \/ source.missing \in RequiredColumns
    THEN [raised |-> FALSE, df |-> <<>>]
    ELSE LET kept == SelectSeq(source.rows, HasRequiredFields)
         IN  [raised |-> FALSE,
              df |-> [i \in 1..Len(kept) |-> WithComputedColumns(kept[i])]]

\* lines 42-67: read_csv raises when the source cannot be read, a missing
\* column raises KeyError, and every exception is raised again as
\* HTTPException; else the cleaned table is returned
LoadData(source) ==
    IF ~source.reachable \/ source.missing \in RequiredColumns
    THEN [raised |-> TRUE, df |-> Unbound]
    ELSE LET kept == SelectSeq(source.rows, HasRequiredFields)
         IN  [raised |-> FALSE,
              df |-> [i \in 1..Len(kept) |-> WithComputedColumns(kept[i])]]

NSourceRows == 2

\* a line of 2017, a line of 2016 without amount, a line without Order ID
SourceRows ==
    {BaseRow,
     [BaseRow EXCEPT !.oid = 2, !.cid = 2, !.prod = 2, !.region = "West",
                     !.odate = DaysFromCivil(2016, 3, 10),
                     !.sdate = DaysFromCivil(2016, 3, 10),
                     !.sales = 0, !.profit = 0],
     [BaseRow EXCEPT !.oid = Absent]}

\* the columns of which one may be missing from the source; "": none
MissingColumns == {"", "Sales", "Order Date"}

Sources ==
    [reachable : BOOLEAN, missing : MissingColumns,
     rows : UNION {[1..n -> SourceRows] : n \in 0..NSourceRows}]

\* line 70, run once when the module is imported: an exception leaves df
\* unbound and ends the import
load_data ==
    /\ df = Unbound
    /\ resp = NoResponse
    /\ \E source \in Sources :
       \E out \in {LoadData(source)} :
           /\ resp' = [endpoint |-> "load_data", source |-> source,
                       raised |-> out.raised]
           /\ df' = out.df

\* lines 1639-1643: the server runs once the module body has been run
ModuleImported == df # Unbound

InitProcess ==
    /\ df = Unbound
    /\ resp = NoResponse

NextProcess ==
    \/ load_data
    \/ ModuleImported /\ get_commandes
    \/ ModuleImported /\ get_kpi_globaux
    \/ ModuleImported /\ get_bcg_matrix
    \/ ModuleImported /\ get_analyse_abc
    \/ ModuleImported /\ get_segmentation_rfm
    \/ ModuleImported /\ get_customer_lifetime_value
    \/ ModuleImported /\ get_taux_retards
    \/ ModuleImported /\ get_performance_categories
    \/ ModuleImported /\ get_cout_prix_unitaire
    \/ ModuleImported /\ get_categories_matrix
    \/ ModuleImported /\ get_taux_retention
    \/ ModuleImported /\ get_temporel_avance
    \/ ModuleImported /\ get_evolution_temporelle
    \/ ModuleImported /\ get_performance_geographique
    \/ ModuleImported /\ get_impact_remises
    \/ ModuleImported /\ get_top_produits
    \/ ModuleImported /\ get_top_villes
    \/ ModuleImported /\ get_analyse_clients
    \/ ModuleImported /\ get_delai_rachat
    \/ ModuleImported /\ get_commandes_deficitaires
    \/ ModuleImported /\ get_delais_livraison

SpecProcess == InitProcess /\ [][NextProcess]_vars

----------------------------------------------------------------------------
(* Properties of get_bcg_matrix, stated on the store itself.               *)

RECURSIVE SumOver(_, _)
\* the sum of f[i] over the indices i in I
SumOver(I, f) ==
    IF I = {} THEN 0
    ELSE LET i == CHOOSE j \in I : TRUE IN f[i] + SumOver(I \ {i}, f)

YearSet == {YearOf(df[i].odate) : i \in 1..Len(df)}

\* the last year of the store and the year before it among the years present
LastYear == CHOOSE y \in YearSet : \A z \in YearSet : z <= y

PrevYear == CHOOSE y \in YearSet \ {LastYear} : \A z \in YearSet \ {LastYear} : z <= y

\* the sales of the product of record r in year y, and of all products
SalesOfIn(r, y) ==
    SumOver({i \in 1..Len(df) : /\ df[i].prod = r.produit
                                /\ df[i].cat = r.categorie
                                /\ df[i].subcat = r.sous_categorie
                                /\ YearOf(df[i].odate) = y},
            [i \in 1..Len(df) |-> df[i].sales])

TotalSalesIn(y) ==
    SumOver({i \in 1..Len(df) : YearOf(df[i].odate) = y},
            [i \in 1..Len(df) |-> df[i].sales])

BcgAnswered == resp.endpoint = "get_bcg_matrix" /\ resp.error = ""

\* c * 100 / T >= 0.5, a share of nothing counting as 0
ShareHigh(c, T) == T > 0 /\ 200 * c >= T

\* growth >= 10, with growth (c - p) / p * 100, 100 for a new product, else 0
GrowthHigh(c, p) == IF p > 0 THEN (c - p) * 100 >= 10 * p ELSE c > 0

C2_Growth ==
    BcgAnswered =>
        \A i \in 1..Len(resp.data) :
            LET r == resp.data[i]
                g == r.loc.croissance
                c == SalesOfIn(r, LastYear)
                p == SalesOfIn(r, PrevYear)
            IN  /\ IsFinite(g)
                /\ p > 0 => g.n * p = (c - p) * 100 * g.d
                /\ (p = 0 /\ c > 0) =>
                       /\ g = FromInt(100)
                       /\ r.quadrant \in {"Etoile", "Dilemme"}
                /\ (p = 0 /\ c = 0) => g = Zero
                /\ r.croissance = Round(g, 2)

\* a response with a product that has no order line in the previous year
\* and sells in the last year, and a product that grew from 10 to 11
C2_Witness ==
    /\ BcgAnswered
    /\ \E i, j \in 1..Len(resp.data) :
           /\ ~\E k \in 1..Len(df) : /\ df[k].prod = resp.data[i].produit
                                     /\ YearOf(df[k].odate) = PrevYear
           /\ SalesOfIn(resp.data[i], LastYear) > 0
           /\ resp.data[i].loc.croissance = FromInt(100)
           /\ SalesOfIn(resp.data[j], PrevYear) = 10
           /\ SalesOfIn(resp.data[j], LastYear) = 11
           /\ resp.data[j].loc.croissance = FromInt(10)

----------------------------------------------------------------------------
(* Properties of get_analyse_abc.                                          *)

AbcAnswered == resp.endpoint = "get_analyse_abc"

\* the rows of the store that belong to the record named nom at a level
AbcMembers(niveau, nom) ==
    {i \in 1..Len(df) : IF niveau = "produit" THEN df[i].prod = nom
                        ELSE IF niveau = "categorie" THEN df[i].cat = nom
                        ELSE df[i].cid = nom}

\* the sales of the first k records of the response, and of all of them
AbcCumul(k) == SumOver(UNION {AbcMembers(resp.niveau, resp.data[j].nom) : j \in 1..k},
                       [i \in 1..Len(df) |-> df[i].sales])

AbcTotal == SumOver(1..Len(df), [i \in 1..Len(df) |-> df[i].sales])

\* the reported pct_cumul in hundredths of a percent
Hundredths(x) == x.n * (100 \div x.d)

\* the response holds one record per group, with the sales of the group, in
\* non-increasing order of sales
AbcRecordsSorted ==
    /\ \A i \in 1..Len(resp.data) :
           /\ AbcMembers(resp.niveau, resp.data[i].nom) # {}
           /\ resp.data[i].ca =
                  FromInt(SumOver(AbcMembers(resp.niveau, resp.data[i].nom),
                                  [k \in 1..Len(df) |-> df[k].sales]))
    /\ \A i, j \in 1..Len(resp.data) : i # j => resp.data[i].nom # resp.data[j].nom
    /\ UNION {AbcMembers(resp.niveau, resp.data[j].nom) : j \in 1..Len(resp.data)}
           = 1..Len(df)
    /\ \A i \in 1..Len(resp.data) - 1 : Ge(resp.data[i].ca, resp.data[i + 1].ca)

\* C3 as stated: the class of a record follows from its cumulative
\* percentage of total sales: A iff it is <= 80, B iff it is in (80, 95],
\* C iff it is > 95.
C3_ClassByCumulativePct ==
    (AbcAnswered /\ AbcTotal > 0) =>
        /\ AbcRecordsSorted
        /\ \A i \in 1..Len(resp.data) :
               LET cum == AbcCumul(i)
                   cl == resp.data[i].classe
               IN  /\ cl \in {"A", "B", "C"}
                   /\ cl = "A" <=> cum * 100 <= 80 * AbcTotal
                   /\ cl = "B" <=> (cum * 100 > 80 * AbcTotal /\ cum * 100 <= 95 * AbcTotal)
                   /\ cl = "C" <=> cum * 100 > 95 * AbcTotal

\* C3 as amended: pct_cumul is the cumulative percentage rounded to two
\* decimals, and the class of a record follows from pct_cumul: A iff
\* pct_cumul <= 80, B iff 80 < pct_cumul <= 95, C otherwise, that is when
\* pct_cumul > 95 or when it is undefined because total sales are 0.  Every
\* record has exactly one class.
C3_ClassByRoundedPct ==
    AbcAnswered =>
        /\ AbcRecordsSorted
        /\ \A i \in 1..Len(resp.data) :
               LET cum == AbcCumul(i)
                   pct == resp.data[i].pct_cumul
                   cl == resp.data[i].classe
               IN  /\ cl \in {"A", "B", "C"}
                   /\ AbcTotal = 0 => (IsNaN(pct) /\ cl = "C")
                   /\ AbcTotal > 0 =>
                          /\ IsFinite(pct)
                          /\ 100 % pct.d = 0
                          /\ 2 * Abs(Hundredths(pct) * AbcTotal - cum * 10000)
                                 <= AbcTotal
                          /\ cl = "A" <=> Hundredths(pct) <= 8000
                          /\ cl = "B" <=> (Hundredths(pct) > 8000
                                           /\ Hundredths(pct) <= 9500)
                          /\ cl = "C" <=> Hundredths(pct) > 9500

\* a response with a class A record whose cumulative percentage is above 80
\* and is reported as 80.0
C3_Witness ==
    /\ AbcAnswered
    /\ \E i \in 1..Len(resp.data) :
           /\ AbcCumul(i) * 100 > 80 * AbcTotal
           /\ resp.data[i].pct_cumul = FromInt(80)
           /\ resp.data[i].classe = "A"

----------------------------------------------------------------------------
(* Properties of segment_client.                                           *)

SegmentLabels == {"Champions", "Fideles", "Nouveaux", "A risque", "Perdus",
                  "Gros depensiers", "Occasionnels"}

SegmentApplied == resp.endpoint = "segment_client" /\ resp.segment # ""

\* C4: for every triple of scores in 1..5 segment_client returns one of the
\* seven labels; r, f, m all >= 4 is Champions; r <= 2 and f <= 2 is Perdus
\* whatever m is; each of the seven labels is the result for some triple.
C4_SegmentTable ==
    /\ SegmentApplied =>
           /\ resp.segment \in SegmentLabels
           /\ (resp.row.r_score >= 4 /\ resp.row.f_score >= 4 /\ resp.row.m_score >= 4)
                  => resp.segment = "Champions"
           /\ (resp.row.r_score <= 2 /\ resp.row.f_score <= 2)
                  => resp.segment = "Perdus"
    /\ \A label \in SegmentLabels : \E row \in ScoreRows : segment_client(row) = label

\* a lost customer with a high monetary score
C4_Witness ==
    /\ SegmentApplied
    /\ resp.row.r_score <= 2
    /\ resp.row.f_score <= 2
    /\ resp.row.m_score >= 4
    /\ resp.segment = "Perdus"

----------------------------------------------------------------------------
(* Properties of get_segmentation_rfm.                                     *)

RfmRequested == resp.endpoint = "get_segmentation_rfm"

\* C5: on a non-empty store the request completes and every customer gets
\* an r_score, an f_score and an m_score in 1..5, a more recent customer
\* never getting a lower r_score, also when customers share the same
\* recency, frequency or monetary value.
C5_ScoresInRange ==
    RfmRequested =>
        /\ resp.error = ""
        /\ {resp.rfm[i].customer_id : i \in 1..Len(resp.rfm)}
               = {df[i].cid : i \in 1..Len(df)}
        /\ \A i \in 1..Len(resp.rfm) :
               /\ resp.rfm[i].r_score \in 1..5
               /\ resp.rfm[i].f_score \in 1..5
               /\ resp.rfm[i].m_score \in 1..5
        /\ \A i, j \in 1..Len(resp.rfm) :
               resp.rfm[i].recency < resp.rfm[j].recency
                   => resp.rfm[i].r_score >= resp.rfm[j].r_score

\* of the requests that complete: the scores are in 1..5
\* and recency is reversed
RfmScoresWhenAnswered ==
    (RfmRequested /\ resp.error = "") =>
        /\ \A i \in 1..Len(resp.rfm) :
               /\ resp.rfm[i].r_score \in 1..5
               /\ resp.rfm[i].f_score \in 1..5
               /\ resp.rfm[i].m_score \in 1..5
        /\ \A i, j \in 1..Len(resp.rfm) :
               resp.rfm[i].recency < resp.rfm[j].recency
                   => resp.rfm[i].r_score >= resp.rfm[j].r_score

\* a request that completes on a store where customers share the same
\* monetary value
RfmAnsweredWithTies ==
    /\ RfmRequested
    /\ resp.error = ""
    /\ \E i, j \in 1..Len(resp.rfm) :
           i # j /\ resp.rfm[i].monetary = resp.rfm[j].monetary
                 /\ resp.rfm[i].frequency = resp.rfm[j].frequency

----------------------------------------------------------------------------
(* Properties of get_customer_lifetime_value, stated on the store itself.  *)

ClvAnswered == resp.endpoint = "get_customer_lifetime_value"

CustomerSet == {df[i].cid : i \in 1..Len(df)}

CustomerLines(c) == {i \in 1..Len(df) : df[i].cid = c}

\* days between the first and the last order of customer c
SpanOf(c) ==
    LET dates == {df[i].odate : i \in CustomerLines(c)}
    IN  (CHOOSE hi \in dates : \A x \in dates : x <= hi)
        - (CHOOSE lo \in dates : \A x \in dates : x >= lo)

TotalSalesOf(c) == SumOver(CustomerLines(c), [i \in CustomerLines(c) |-> df[i].sales])

ClvRow(c) ==
    CHOOSE i \in 1..Len(resp.clients_clv) : resp.clients_clv[i].customer_id = c

\* C6: every customer's clv_3_ans is total sales / (L / 365) * 3, that is
\* total sales * 1095 / L, with L the days between the first and the last
\* order and L = 0 replaced by 1; it is finite for every customer.
C6_ClvThreeYears ==
    ClvAnswered =>
        /\ {resp.clients_clv[i].customer_id : i \in 1..Len(resp.clients_clv)}
               = CustomerSet
        /\ \A c \in CustomerSet :
               LET L == IF SpanOf(c) = 0 THEN 1 ELSE SpanOf(c)
                   clv == resp.clients_clv[ClvRow(c)].clv_3_ans
               IN  /\ clv.d # 0
                   /\ clv.n * L = TotalSalesOf(c) * 1095 * clv.d
        /\ \A k \in 1..Len(resp.top_clients) :
               /\ resp.top_clients[k].clv_3_ans.d # 0
               /\ resp.top_clients[k].clv_3_ans
                      = Round(resp.clients_clv[ClvRow(resp.top_clients[k].client)].clv_3_ans, 2)

\* a customer with a single order (L = 0) beside a customer with two orders
C6_Witness ==
    /\ ClvAnswered
    /\ \E c \in CustomerSet :
           /\ SpanOf(c) = 0
           /\ TotalSalesOf(c) > 0
           /\ \E k \in 1..Len(resp.top_clients) :
                  /\ resp.top_clients[k].client = c
                  /\ resp.top_clients[k].lifetime_days = 1
                  /\ resp.top_clients[k].clv_3_ans = FromInt(TotalSalesOf(c) * 1095)
    /\ \E c \in CustomerSet :
           /\ SpanOf(c) > 1
           /\ resp.clients_clv[ClvRow(c)].clv_3_ans.d > 1

\* the middle value of the clv_3_ans of all customers: M is a median when
\* it is the mean of two values a <= b of the frame with as many customers
\* at or below a as at or above b
IsMedianOfAll(M) ==
    LET all == resp.clients_clv
        n == Len(all)
    IN  \E i, j \in 1..n :
            /\ Le(all[i].clv_3_ans, all[j].clv_3_ans)
            /\ M = DivInt(Add(all[i].clv_3_ans, all[j].clv_3_ans), 2)
            /\ 2 * Cardinality({k \in 1..n : Lt(all[k].clv_3_ans, all[i].clv_3_ans)}) < n
            /\ 2 * Cardinality({k \in 1..n : Le(all[k].clv_3_ans, all[i].clv_3_ans)}) >= n
            /\ 2 * Cardinality({k \in 1..n : Gt(all[k].clv_3_ans, all[j].clv_3_ans)}) < n
            /\ 2 * Cardinality({k \in 1..n : Ge(all[k].clv_3_ans, all[j].clv_3_ans)}) >= n

\* C7: with M the median clv_3_ans of all customers, a customer is
\* "Tres elevee" iff clv >= 2M, "Elevee" iff M <= clv < 2M, "Moyenne" iff
\* M/2 <= clv < M and "Faible" iff clv < M/2; the top clients carry the
\* category they got among all customers, before the truncation to limite.
C7_ClvCategories ==
    ClvAnswered =>
        LET M == resp.clv_median
            all == resp.clients_clv
        IN  /\ IsMedianOfAll(M)
            /\ Len(all) = Cardinality(CustomerSet)
            /\ \A i \in 1..Len(all) :
                   LET clv == all[i].clv_3_ans
                       cat == all[i].categorie_clv
                   IN  /\ cat \in {"Tres elevee", "Elevee", "Moyenne", "Faible"}
                       /\ (cat = "Tres elevee") <=> Ge(clv, MulInt(M, 2))
                       /\ (cat = "Elevee") <=> (Ge(clv, M) /\ Lt(clv, MulInt(M, 2)))
                       /\ (cat = "Moyenne") <=> (Ge(clv, DivInt(M, 2)) /\ Lt(clv, M))
                       /\ (cat = "Faible") <=> Lt(clv, DivInt(M, 2))
            /\ Len(resp.top_clients)
                   = (IF Len(all) <= resp.limite THEN Len(all) ELSE resp.limite)
            /\ \A k \in 1..Len(resp.top_clients) :
                   resp.top_clients[k].categorie
                       = all[ClvRow(resp.top_clients[k].client)].categorie_clv
            /\ SumOver(1..Len(resp.par_categorie),
                       [k \in 1..Len(resp.par_categorie) |->
                           resp.par_categorie[k].nb_clients]) = Len(all)

\* more customers than limite, a customer exactly at twice the median, one
\* exactly at half the median, and a "Faible" customer left out of the top
C7_Witness ==
    /\ ClvAnswered
    /\ Len(resp.clients_clv) > resp.limite
    /\ Len(resp.top_clients) = resp.limite
    /\ Gt(resp.clv_median, Zero)
    /\ \E i, j, l \in 1..Len(resp.clients_clv) :
           /\ resp.clients_clv[i].clv_3_ans = MulInt(resp.clv_median, 2)
           /\ resp.clients_clv[i].categorie_clv = "Tres elevee"
           /\ resp.clients_clv[j].clv_3_ans = DivInt(resp.clv_median, 2)
           /\ resp.clients_clv[j].categorie_clv = "Moyenne"
           /\ resp.clients_clv[l].categorie_clv = "Faible"
           /\ \A k \in 1..Len(resp.top_clients) :
                  resp.top_clients[k].client # resp.clients_clv[l].customer_id

----------------------------------------------------------------------------
(* Properties of get_taux_retards, stated on the store itself.             *)

RetardsAnswered == resp.endpoint = "get_taux_retards"

\* the threshold of a ship mode, 7 for a mode without one
ThresholdOf(mode) ==
    CASE mode = "Standard Class" -> 7
      [] mode = "Second Class" -> 5
      [] mode = "First Class" -> 3
      [] mode = "Same Day" -> 1
      [] OTHER -> 7

LateLines == {i \in 1..Len(df) : df[i].sdate - df[i].odate > ThresholdOf(df[i].mode)}

----------------------------------------------------------------------------
(* Properties of the ratios of the answers.                                *)

CategoriesAnswered == resp.endpoint = "get_performance_categories"

CoutPrixAnswered == resp.endpoint = "get_cout_prix_unitaire"

KpiAnswered == resp.endpoint = "get_kpi_globaux"

\* C9: a ratio whose denominator is zero is 0, and no answer holds an
\* infinite or NaN ratio: the marge_pct of a category without sales, the
\* prix_unitaire and marge_unitaire of a product without quantity, the
\* ratios of the global KPIs and those of the BCG matrix.
C9_ZeroDenominatorGivesZero ==
    /\ CategoriesAnswered =>
           \A k \in 1..Len(resp.data) :
               /\ resp.data[k].marge_pct.d # 0
               /\ resp.data[k].ca = 0 => resp.data[k].marge_pct = Zero
    /\ CoutPrixAnswered =>
           \A k \in 1..Len(resp.data) :
               /\ resp.data[k].prix_unitaire.d # 0
               /\ resp.data[k].marge_unitaire.d # 0
               /\ resp.data[k].marge_pct.d # 0
               /\ resp.data[k].quantite_vendue = 0
                      => /\ resp.data[k].prix_unitaire = Zero
                         /\ resp.data[k].marge_unitaire = Zero
    /\ KpiAnswered =>
           /\ resp.panier_moyen.d # 0
           /\ resp.marge_moyenne.d # 0
           /\ resp.nb_commandes = 0 => resp.panier_moyen = Zero
           /\ resp.loc.ca_total = 0 => resp.marge_moyenne = Zero
    /\ (BcgAnswered /\ resp.error = "") =>
           \A k \in 1..Len(resp.data) :
               /\ resp.data[k].marge_pct.d # 0
               /\ resp.data[k].rotation.d # 0
               /\ resp.data[k].part_marche.d # 0
               /\ resp.data[k].loc.ca_last = 0
                      => /\ resp.data[k].marge_pct = Zero
                         /\ resp.data[k].rotation = Zero

\* the sites that replace a zero denominator do give 0: the global KPIs
\* and the marge_pct of get_cout_prix_unitaire
GuardedRatiosGiveZero ==
    /\ KpiAnswered =>
           /\ resp.panier_moyen.d # 0
           /\ resp.marge_moyenne.d # 0
           /\ resp.nb_commandes = 0 => resp.panier_moyen = Zero
           /\ resp.loc.ca_total = 0 => resp.marge_moyenne = Zero
    /\ CoutPrixAnswered =>
           \A k \in 1..Len(resp.data) : resp.data[k].marge_pct.d # 0

\* C10: with a denominator that is not zero, negative included, the margin
\* and the average basket of get_kpi_globaux and the market share, margin
\* and rotation of get_bcg_matrix are numerator / denominator.
C10_RatioIsQuotient ==
    /\ KpiAnswered =>
           /\ resp.loc.ca_total # 0 =>
                  resp.loc.marge_moyenne
                      = Frac(resp.loc.profit_total * 100, resp.loc.ca_total)
           /\ resp.nb_commandes # 0 =>
                  resp.loc.panier_moyen = Frac(resp.loc.ca_total, resp.nb_commandes)
    /\ (BcgAnswered /\ resp.error = "") =>
           \A k \in 1..Len(resp.data) :
               /\ TotalSalesIn(LastYear) # 0 =>
                      resp.data[k].loc.part_marche
                          = Frac(resp.data[k].loc.ca_last * 100, TotalSalesIn(LastYear))
               /\ resp.data[k].loc.ca_last # 0 =>
                      resp.data[k].loc.marge.n * resp.data[k].loc.ca_last
                          = resp.data[k].profit.n * 100 * resp.data[k].loc.marge.d

\* with a positive denominator the ratios of get_kpi_globaux are the quotient
KpiQuotientWhenPositive ==
    KpiAnswered =>
        /\ resp.loc.ca_total > 0 =>
               resp.loc.marge_moyenne
                   = Frac(resp.loc.profit_total * 100, resp.loc.ca_total)
        /\ resp.nb_commandes > 0 =>
               resp.loc.panier_moyen = Frac(resp.loc.ca_total, resp.nb_commandes)

----------------------------------------------------------------------------
(* Properties of get_categories_matrix, stated on the store itself.        *)

MatrixAnswered == resp.endpoint = "get_categories_matrix"

SubcatSet == {df[i].subcat : i \in 1..Len(df)}

SubcatLines(g) == {i \in 1..Len(df) : df[i].subcat = g}

SubcatSalesOf(g) == SumOver(SubcatLines(g), [i \in SubcatLines(g) |-> df[i].sales])

SubcatProfitOf(g) == SumOver(SubcatLines(g), [i \in SubcatLines(g) |-> df[i].profit])

\* M is a median of the values v[1..n]: the mean of two of them, a <= b,
\* with at most half of the values below a and at most half above b
IsMedianOf(M, v) ==
    LET n == Len(v)
    IN  \E i, j \in 1..n :
            /\ Le(v[i], v[j])
            /\ M = DivInt(Add(v[i], v[j]), 2)
            /\ 2 * Cardinality({k \in 1..n : Lt(v[k], v[i])}) < n
            /\ 2 * Cardinality({k \in 1..n : Le(v[k], v[i])}) >= n
            /\ 2 * Cardinality({k \in 1..n : Gt(v[k], v[j])}) < n
            /\ 2 * Cardinality({k \in 1..n : Ge(v[k], v[j])}) >= n

\* C11: the thresholds are the medians of the sales and of the margins of
\* the sub-categories of the table; a sub-category at or above both is Q1
\* (invest), at or above the sales median only Q2 (cut costs), at or above
\* the margin median only Q3 (grow visibility), below both Q4 (divest).
C11_MatrixQuadrants ==
    MatrixAnswered =>
        LET d == resp.data
            cm == resp.ca_median
            mm == resp.marge_median
        IN  /\ {d[k].sous_categorie : k \in 1..Len(d)} = SubcatSet
            /\ Len(d) = Cardinality(SubcatSet)
            /\ IsMedianOf(cm, [k \in 1..Len(d) |-> d[k].ca])
            /\ IsMedianOf(mm, [k \in 1..Len(d) |-> d[k].marge])
            /\ \A k \in 1..Len(d) :
                   LET S == SubcatSalesOf(d[k].sous_categorie)
                       P == SubcatProfitOf(d[k].sous_categorie)
                       hiS == Ge(FromInt(S), cm)
                       hiM == Ge(d[k].marge, mm)
                   IN  /\ d[k].ca = FromInt(S)
                       /\ d[k].marge = (IF S = 0 THEN Zero ELSE Frac(P * 100, S))
                       /\ (hiS /\ hiM) =>
                              /\ d[k].quadrant = "Q1 - Priorite"
                              /\ d[k].action_recommandee = "Investir et developper"
                       /\ (hiS /\ ~hiM) =>
                              /\ d[k].quadrant = "Q2 - A optimiser"
                              /\ d[k].action_recommandee = "Reduire couts/discounts"
                       /\ (~hiS /\ hiM) =>
                              /\ d[k].quadrant = "Q3 - A developper"
                              /\ d[k].action_recommandee = "Augmenter visibilite"
                       /\ (~hiS /\ ~hiM) =>
                              /\ d[k].quadrant = "Q4 - A abandonner"
                              /\ d[k].action_recommandee = "Reduire ou arreter"

\* a sub-category exactly at both medians that is Q1, beside one of each of
\* Q2 and Q3
C11_Witness ==
    /\ MatrixAnswered
    /\ \E i, j, k \in 1..Len(resp.data) :
           /\ resp.data[i].ca = resp.ca_median
           /\ resp.data[i].marge = resp.marge_median
           /\ resp.data[i].quadrant = "Q1 - Priorite"
           /\ resp.data[j].quadrant = "Q2 - A optimiser"
           /\ resp.data[k].quadrant = "Q3 - A developper"

----------------------------------------------------------------------------
(* Properties of get_taux_retention, stated on the store itself.           *)

RetentionAnswered == resp.endpoint = "get_taux_retention"

\* the month of the first order of customer c
FirstMonthOf(c) ==
    LET months == {OrderMonth(df[i].odate) : i \in CustomerLines(c)}
    IN  CHOOSE m \in months : \A x \in months : m <= x

CohortSet == {FirstMonthOf(c) : c \in CustomerSet}

\* C12: the retention of every cohort at 0 months elapsed is exactly 100,
\* in the matrix and in every reported cohort row.
C12_MonthZeroIsHundred ==
    RetentionAnswered =>
        /\ DOMAIN resp.retention_matrix = CohortSet
        /\ \A c \in CohortSet :
               /\ 0 \in DOMAIN resp.retention_matrix[c]
               /\ resp.retention_matrix[c][0] = FromInt(100)
        /\ \A k \in 1..Len(resp.cohort_data) :
               /\ 0 \in DOMAIN resp.cohort_data[k].month
               /\ resp.cohort_data[k].month[0] = FromInt(100)

\* two cohorts, one of two customers of whom one came back a month later
\* (retention 50 after one month), both at 100 for month 0
C12_Witness ==
    /\ RetentionAnswered
    /\ Len(resp.cohort_data) >= 2
    /\ \E k \in 1..Len(resp.cohort_data) :
           /\ 1 \in DOMAIN resp.cohort_data[k].month
           /\ resp.cohort_data[k].month[1] = FromInt(50)
           /\ resp.cohort_data[k].month[0] = FromInt(100)

\* the reported cohorts are the latest cohorts, at most 12, in ascending order
LatestCohortsReported ==
    RetentionAnswered =>
        LET d == resp.cohort_data
            reported == {d[k].cohort : k \in 1..Len(d)}
        IN  /\ Len(d) = (IF Cardinality(CohortSet) <= 12
                         THEN Cardinality(CohortSet) ELSE 12)
            /\ reported \subseteq CohortSet
            /\ \A k \in 1..Len(d) - 1 : d[k].cohort < d[k + 1].cohort
            /\ \A c \in CohortSet \ reported : \A x \in reported : c < x

\* C13: at most 12 cohorts are reported, the latest ones, in ascending
\* order of cohort month, and every reported row has the cells of the
\* periods 0 to 11.
C13_LatestCohortsTwelvePeriods ==
    /\ LatestCohortsReported
    /\ RetentionAnswered =>
           \A k \in 1..Len(resp.cohort_data) :
               DOMAIN resp.cohort_data[k].month = 0..11

\* more than 12 cohorts in the table, 12 of them reported
MoreThanTwelveCohorts ==
    /\ RetentionAnswered
    /\ Cardinality(CohortSet) > 12
    /\ Len(resp.cohort_data) = 12

----------------------------------------------------------------------------
(* Properties of get_temporel_avance, stated on the store itself.          *)

TemporelAnswered == resp.endpoint = "get_temporel_avance"

\* the months with an order, as 12 * year + month - 1
MonthSet == {OrderMonth(df[i].odate) : i \in 1..Len(df)}

MonthLines(m) == {i \in 1..Len(df) : OrderMonth(df[i].odate) = m}

MonthSalesOf(m) == SumOver(MonthLines(m), [i \in MonthLines(m) |-> df[i].sales])

MonthProfitOf(m) == SumOver(MonthLines(m), [i \in MonthLines(m) |-> df[i].profit])

\* the buckets of the answer are the months of the table in ascending order
BucketsInOrder ==
    /\ {resp.data[k].periode : k \in 1..Len(resp.data)} = MonthSet
    /\ Len(resp.data) = Cardinality(MonthSet)
    /\ \A k \in 1..Len(resp.data) - 1 : resp.data[k].periode < resp.data[k + 1].periode

\* C14: ca_mm3 and profit_mm3 of the i-th bucket are the mean of the sales
\* and profit of bucket i and of the buckets i-1 and i-2 when they exist.
C14_MovingAverage ==
    TemporelAnswered =>
        /\ BucketsInOrder
        /\ \A i \in 1..Len(resp.data) :
               LET W == {k \in 1..i : k >= i - 2}
                   S == SumOver(W, [k \in W |-> MonthSalesOf(resp.data[k].periode)])
                   P == SumOver(W, [k \in W |-> MonthProfitOf(resp.data[k].periode)])
               IN  /\ resp.data[i].mm3 = Frac(S, Cardinality(W))
                   /\ resp.data[i].ca_mm3 = Round(Frac(S, Cardinality(W)), 2)
                   /\ resp.data[i].profit_mm3 = Round(Frac(P, Cardinality(W)), 2)

\* four buckets whose means are over 1, 2, 3 and 3 buckets, the last mean
\* differing from the mean of all four
C14_Witness ==
    /\ TemporelAnswered
    /\ Len(resp.data) = 4
    /\ resp.data[2].mm3 # resp.data[1].mm3
    /\ resp.data[3].mm3 # resp.data[2].mm3
    /\ resp.data[4].mm3
           # Frac(SumOver(MonthSet, [m \in MonthSet |-> MonthSalesOf(m)]), 4)

\* C15: croissance_pct of a bucket is (sales - prev) / prev * 100 with prev
\* the sales of the bucket before it; it is 0 for the first bucket and
\* when prev is 0, and always finite.
C15_PeriodGrowth ==
    TemporelAnswered =>
        /\ BucketsInOrder
        /\ \A i \in 1..Len(resp.data) :
               LET cur == MonthSalesOf(resp.data[i].periode)
                   prev == IF i = 1 THEN 0 ELSE MonthSalesOf(resp.data[i - 1].periode)
               IN  /\ resp.data[i].croissance.d # 0
                   /\ resp.data[i].croissance_pct.d # 0
                   /\ (i = 1 \/ prev = 0) => resp.data[i].croissance = Zero
                   /\ (i > 1 /\ prev # 0) =>
                          resp.data[i].croissance = Frac((cur - prev) * 100, prev)
                   /\ resp.data[i].croissance_pct = Round(resp.data[i].croissance, 2)

\* a bucket after a bucket without sales (growth 0) and a bucket that doubles
\* the one before it (growth 100)
C15_Witness ==
    /\ TemporelAnswered
    /\ \E i, j \in 2..Len(resp.data) :
           /\ MonthSalesOf(resp.data[i - 1].periode) = 0
           /\ MonthSalesOf(resp.data[i].periode) > 0
           /\ resp.data[i].croissance_pct = Zero
           /\ resp.data[j].croissance_pct = FromInt(100)

\* C16: a bucket (y, m) without a bucket (y-1, m) has null ca_n1, profit_n1
\* and variation_yoy; with one, ca_n1 and profit_n1 are its sales and profit
\* and variation_yoy is (sales - ca_n1) / ca_n1 * 100.
C16_YearOverYear ==
    TemporelAnswered =>
        \A i \in 1..Len(resp.data) :
            LET b == resp.data[i]
                cur == MonthSalesOf(b.periode)
            IN  IF b.periode - 12 \in MonthSet
                THEN /\ b.ca_n1 = <<FromInt(MonthSalesOf(b.periode - 12))>>
                     /\ b.profit_n1 = <<FromInt(MonthProfitOf(b.periode - 12))>>
                     /\ Len(b.variation_yoy) = 1
                     /\ MonthSalesOf(b.periode - 12) # 0 =>
                            b.variation_yoy =
                                <<Round(Frac((cur - MonthSalesOf(b.periode - 12)) * 100,
                                             MonthSalesOf(b.periode - 12)), 2)>>
                ELSE b.ca_n1 = <<>> /\ b.profit_n1 = <<>> /\ b.variation_yoy = <<>>

\* the year-over-year cells when the bucket of the year before is absent or
\* has sales above 0
YearOverYearWhenPositive ==
    TemporelAnswered =>
        \A i \in 1..Len(resp.data) :
            LET b == resp.data[i]
                cur == MonthSalesOf(b.periode)
            IN  /\ b.periode - 12 \notin MonthSet =>
                       b.ca_n1 = <<>> /\ b.profit_n1 = <<>> /\ b.variation_yoy = <<>>
                /\ (b.periode - 12 \in MonthSet /\ MonthSalesOf(b.periode - 12) > 0) =>
                       /\ b.ca_n1 = <<FromInt(MonthSalesOf(b.periode - 12))>>
                       /\ b.profit_n1 = <<FromInt(MonthProfitOf(b.periode - 12))>>
                       /\ b.variation_yoy =
                              <<Round(Frac((cur - MonthSalesOf(b.periode - 12)) * 100,
                                           MonthSalesOf(b.periode - 12)), 2)>>

\* a bucket with a bucket a year before and one without
YearOverYearBothCases ==
    /\ TemporelAnswered
    /\ \E i, j \in 1..Len(resp.data) :
           /\ Len(resp.data[i].variation_yoy) = 1
           /\ resp.data[i].variation_yoy # <<Zero>>
           /\ resp.data[j].ca_n1 = <<>>

----------------------------------------------------------------------------
(* Properties of filtrer_dataframe, stated on the store itself.            *)

\* row r satisfies every filter of the request f that is given
Passes(r, f) ==
    /\ f.date_debut # NoDate => r.odate >= f.date_debut
    /\ f.date_fin # NoDate => r.odate <= f.date_fin
    /\ f.categorie \notin {"", "Toutes"} => r.cat = f.categorie
    /\ f.region \notin {"", "Toutes"} => r.region = f.region
    /\ f.segment \notin {"", "Tous"} => r.segment = f.segment

KeptLines == {i \in 1..Len(df) : Passes(df[i], resp.filtres)}

\* the five filters applied one at a time, the last one first
FilteredInReverse(t, f) ==
    filtrer_dataframe(
        filtrer_dataframe(
            filtrer_dataframe(
                filtrer_dataframe(
                    filtrer_dataframe(t, NoDate, NoDate, "", "", f.segment),
                    NoDate, NoDate, "", f.region, ""),
                NoDate, NoDate, f.categorie, "", ""),
            NoDate, f.date_fin, "", "", ""),
        f.date_debut, NoDate, "", "", "")

\* C17: the filtered table holds exactly the rows that satisfy every given
\* filter (dates inclusive, exact match, "", "Toutes" and "Tous" removing
\* nothing), in their order; applying the filters in another order or a
\* second time gives the same table; the KPIs are those of these rows.
C17_FiltersCompose ==
    KpiAnswered =>
        LET f == resp.filtres
            kept == resp.df_filtered
        IN  /\ kept = SelectSeq(df, LAMBDA r : Passes(r, f))
            /\ Len(kept) = Cardinality(KeptLines)
            /\ FilteredInReverse(df, f) = kept
            /\ filtrer_dataframe(kept, f.date_debut, f.date_fin, f.categorie,
                                 f.region, f.segment) = kept
            /\ resp.loc.ca_total = SumOver(KeptLines, [i \in KeptLines |-> df[i].sales])
            /\ resp.nb_commandes = Cardinality({df[i].oid : i \in KeptLines})

\* a request with the five filters given that keeps a line of the very day
\* of both date bounds and drops another line
C17_Witness ==
    /\ KpiAnswered
    /\ resp.filtres.date_debut # NoDate
    /\ resp.filtres.date_fin = resp.filtres.date_debut
    /\ resp.filtres.categorie = "Furniture"
    /\ resp.filtres.region = "West"
    /\ resp.filtres.segment = "Consumer"
    /\ Len(resp.df_filtered) = 1
    /\ resp.df_filtered[1].odate = resp.filtres.date_fin
    /\ Len(df) > 1

----------------------------------------------------------------------------
(* Conservation of the sales over the groups of an answer.                 *)

TotalSales == SumOver(1..Len(df), [i \in 1..Len(df) |-> df[i].sales])

GroupedAnswered ==
    resp.endpoint \in {"get_evolution_temporelle", "get_performance_categories",
                       "get_performance_geographique", "get_analyse_abc"}

\* C18: the sales of the groups of an answer that covers the whole table
\* (periods of each granularity, categories, regions, discount brackets,
\* ABC records) add up to the total sales of the table.
C18_GroupSalesAddUp ==
    /\ GroupedAnswered =>
           SumOver(1..Len(resp.data), [k \in 1..Len(resp.data) |->
               IF resp.endpoint = "get_analyse_abc"
               THEN resp.data[k].ca.n ELSE resp.data[k].ca]) = TotalSales
    /\ resp.endpoint = "get_analyse_abc" =>
           /\ \A k \in 1..Len(resp.data) : resp.data[k].ca.d = 1
           /\ resp.statistiques.ca_total = FromInt(TotalSales)
    /\ resp.endpoint = "get_impact_remises" =>
           /\ \A k \in 1..Len(resp.data) : resp.data[k].ca_total.d = 1
           /\ SumOver(1..Len(resp.data), [k \in 1..Len(resp.data) |->
                  resp.data[k].ca_total.n]) = TotalSales
           /\ SumOver(1..Len(resp.data), [k \in 1..Len(resp.data) |->
                  resp.data[k].nb_commandes]) >= Cardinality({df[i].oid : i \in 1..Len(df)})

\* an answer by discount bracket with two brackets, one of them that of the
\* lines without discount
C18_Witness ==
    /\ resp.endpoint = "get_impact_remises"
    /\ Len(resp.data) = 2
    /\ resp.data[1].tranche_discount = "0-5%"
    /\ resp.data[1].ca_total # FromInt(TotalSales)

----------------------------------------------------------------------------
(* The top-N endpoints.                                                    *)

\* the returned keys, in the order of the answer, are those of the
\* min(limite, K) first of K records: they do not increase, and no key of
\* an omitted record is greater than a returned one
TopNRanked(K, limite, returned, omitted) ==
    /\ Len(returned) = MinOf(limite, K)
    /\ \A i \in 1..Len(returned) - 1 : Ge(returned[i], returned[i + 1])
    /\ \A o \in omitted : \A i \in 1..Len(returned) : Le(o, returned[i])

LinesWhere(P(_)) == {i \in 1..Len(df) : P(df[i])}

SumOfLines(I, tri_par) ==
    SumOver(I, [i \in I |-> IF tri_par = "ca" THEN df[i].sales
                            ELSE IF tri_par = "profit" THEN df[i].profit
                            ELSE df[i].qty])

ProductSet == {<<df[i].prod, df[i].cat>> : i \in 1..Len(df)}

TopProduitsRanked ==
    LET shown == {<<resp.data[i].produit, resp.data[i].categorie>> :
                     i \in 1..Len(resp.data)}
        key(p) == FromInt(SumOfLines(LinesWhere(LAMBDA r : <<r.prod, r.cat>> = p),
                                     resp.tri_par))
    IN  /\ Cardinality(shown) = Len(resp.data)
        /\ shown \subseteq ProductSet
        /\ TopNRanked(Cardinality(ProductSet), resp.limite,
                      [i \in 1..Len(resp.data) |->
                          key(<<resp.data[i].produit, resp.data[i].categorie>>)],
                      {key(p) : p \in ProductSet \ shown})
        /\ \A i \in 1..Len(resp.data) :
               (IF resp.tri_par = "ca" THEN resp.data[i].ca
                ELSE IF resp.tri_par = "profit" THEN resp.data[i].profit
                ELSE FromInt(resp.data[i].quantite))
                   = key(<<resp.data[i].produit, resp.data[i].categorie>>)

CitySet == {<<df[i].city, df[i].state, df[i].region>> : i \in 1..Len(df)}

TopVillesRanked ==
    LET top == resp.top_ca
        shown == {<<top[i].ville, top[i].etat, top[i].region>> : i \in 1..Len(top)}
        key(c) == FromInt(SumOfLines(
                      LinesWhere(LAMBDA r : <<r.city, r.state, r.region>> = c), "ca"))
    IN  /\ Cardinality(shown) = Len(top)
        /\ shown \subseteq CitySet
        /\ TopNRanked(Cardinality(CitySet), resp.limite,
                      [i \in 1..Len(top) |-> top[i].ca],
                      {key(c) : c \in CitySet \ shown})
        /\ \A i \in 1..Len(top) :
               top[i].ca = key(<<top[i].ville, top[i].etat, top[i].region>>)

TopClientsRanked ==
    LET top == resp.top_clients
        shown == {top[i].customer_id : i \in 1..Len(top)}
        key(c) == FromInt(SumOfLines(CustomerLines(c), "ca"))
    IN  /\ Cardinality(shown) = Len(top)
        /\ shown \subseteq CustomerSet
        /\ TopNRanked(Cardinality(CustomerSet), resp.limite,
                      [i \in 1..Len(top) |-> FromInt(top[i].ca_total)],
                      {key(c) : c \in CustomerSet \ shown})
        /\ \A i \in 1..Len(top) : FromInt(top[i].ca_total) = key(top[i].customer_id)

TopClvRanked ==
    LET top == resp.top_clients
        shown == {top[i].client : i \in 1..Len(top)}
        all == resp.clients_clv
        key(c) == (CHOOSE k \in 1..Len(all) : all[k].customer_id = c)
    IN  /\ Cardinality(shown) = Len(top)
        /\ shown \subseteq CustomerSet
        /\ {all[k].customer_id : k \in 1..Len(all)} = CustomerSet
        /\ TopNRanked(Cardinality(CustomerSet), resp.limite,
                      [i \in 1..Len(top) |-> all[key(top[i].client)].clv_3_ans],
                      {all[key(c)].clv_3_ans : c \in CustomerSet \ shown})
        /\ \A i \in 1..Len(top) :
               top[i].clv_3_ans = Round(all[key(top[i].client)].clv_3_ans, 2)

BcgProductSet == {ProductKey(df[i]) : i \in 1..Len(df)}

BcgLastYear == CHOOSE y \in {YearOf(df[i].odate) : i \in 1..Len(df)} :
                   \A i \in 1..Len(df) : YearOf(df[i].odate) <= y

TopBcgRanked ==
    LET top == resp.data
        shown == {[prod |-> top[i].produit, cat |-> top[i].categorie,
                   subcat |-> top[i].sous_categorie] : i \in 1..Len(top)}
        key(p) == FromInt(SumOfLines(LinesWhere(
                      LAMBDA r : ProductKey(r) = p /\ YearOf(r.odate) = BcgLastYear),
                      "ca"))
    IN  /\ Cardinality(shown) = Len(top)
        /\ shown \subseteq BcgProductSet
        /\ TopNRanked(Cardinality(BcgProductSet), resp.limite,
                      [i \in 1..Len(top) |-> top[i].ca_actuel],
                      {key(p) : p \in BcgProductSet \ shown})
        /\ \A i \in 1..Len(top) :
               top[i].ca_actuel = key([prod |-> top[i].produit,
                                       cat |-> top[i].categorie,
                                       subcat |-> top[i].sous_categorie])

\* C19: every top-N endpoint answers with the min(N, K) first of its K
\* aggregate records in non-increasing order of the sort key, no omitted
\* record having a greater key than a returned one; with N > K all K records
\* are returned (get_bcg_matrix: when the table spans two years, so that the
\* records are built).
C19_TopN ==
    /\ resp.endpoint = "get_top_produits" => TopProduitsRanked
    /\ resp.endpoint = "get_top_villes" => TopVillesRanked
    /\ resp.endpoint = "get_analyse_clients" => TopClientsRanked
    /\ resp.endpoint = "get_customer_lifetime_value" => TopClvRanked
    /\ (resp.endpoint = "get_bcg_matrix" /\ resp.error = "") => TopBcgRanked

\* the ten first of twelve products, one of the two left out having sales
C19_Witness ==
    /\ resp.endpoint = "get_bcg_matrix"
    /\ resp.error = ""
    /\ Cardinality(BcgProductSet) = 12
    /\ Len(resp.data) = 10
    /\ \E i \in 1..Len(df) :
           /\ df[i].sales > 0 /\ YearOf(df[i].odate) = BcgLastYear
           /\ \A k \in 1..Len(resp.data) : resp.data[k].produit # df[i].prod

\* a limit of five on two products
TopOfFewRecords ==
    /\ resp.endpoint = "get_top_produits"
    /\ resp.limite = 5
    /\ Len(resp.data) = 2

\* the first of twelve products, cities or customers
TopOfManyRecords ==
    \/ resp.endpoint = "get_top_produits" /\ resp.limite = 1 /\ Len(resp.produits) = 12
    \/ resp.endpoint = "get_top_villes" /\ resp.limite = 5 /\ Len(resp.cities) = 12
    \/ resp.endpoint = "get_customer_lifetime_value" /\ resp.limite = 10
         /\ Len(resp.clients_clv) = 12

----------------------------------------------------------------------------
(* The order of records of equal sort value.                               *)

\* the grouping key of a record of the answer
GroupingKeyOf(r) ==
    IF resp.endpoint = "get_top_produits" THEN <<r.produit, StrRank(r.categorie)>>
    ELSE IF resp.niveau = "produit" THEN <<r.nom, StrRank(r.categorie)>>
    ELSE IF resp.niveau = "categorie" THEN <<0, StrRank(r.nom)>>
    ELSE <<r.nom, 0>>

SortValueOf(r) ==
    IF resp.endpoint = "get_analyse_abc" \/ resp.tri_par = "ca" THEN r.ca
    ELSE IF resp.tri_par = "profit" THEN r.profit
    ELSE FromInt(r.quantite)

SortedAnswered == resp.endpoint \in {"get_analyse_abc", "get_top_produits"}

\* C20: in the answers of get_analyse_abc and get_top_produits, records of
\* equal sort value are in the order of their grouping key.
C20_TiesInKeyOrder ==
    SortedAnswered =>
        \A i, j \in 1..Len(resp.data) :
            (i < j /\ SortValueOf(resp.data[i]) = SortValueOf(resp.data[j]))
                => AbcKeyBefore(GroupingKeyOf(resp.data[i]), GroupingKeyOf(resp.data[j]))

\* whatever the order of the ties, the sort values do not increase
SortValuesDoNotIncrease ==
    SortedAnswered =>
        \A i \in 1..Len(resp.data) - 1 :
            Ge(SortValueOf(resp.data[i]), SortValueOf(resp.data[i + 1]))

\* two products of equal amount, both in the answer of get_top_produits
TiedProductsAnswered ==
    /\ resp.endpoint = "get_top_produits"
    /\ resp.tri_par = "ca"
    /\ \E i, j \in 1..Len(resp.data) : i # j /\ resp.data[i].ca = resp.data[j].ca

----------------------------------------------------------------------------
(* The validation of the parameters.                                       *)

Routed == resp.endpoint # "none" /\ "status" \in DOMAIN resp

\* the parameters of the request are those the endpoint declares
DeclaredParams ==
    LET p == resp.params
    IN  IF resp.endpoint = "get_top_produits"
        THEN p.limite \in 1..50 /\ p.tri_par \in {"ca", "profit", "quantite"}
        ELSE IF resp.endpoint = "get_evolution_temporelle"
        THEN p.periode \in {"jour", "mois", "annee"}
        ELSE p.niveau \in {"produit", "categorie", "client"}

\* C21: a request with a limit out of range or an unknown sort key,
\* granularity or level is answered with a client error and no result.
C21_InvalidRejected ==
    (Routed /\ ~DeclaredParams) => (resp.status = 422 /\ "body" \notin DOMAIN resp)

\* a limit out of range is always rejected, and so is every unknown value
\* when $ matches at the end of the text only
RejectedOutOfRange ==
    Routed =>
        /\ (resp.endpoint = "get_top_produits" /\ resp.params.limite \notin 1..50)
               => resp.status = 422
        /\ (resp.params.engine = "pattern" /\ ~DeclaredParams) => resp.status = 422
        /\ DeclaredParams => resp.status = 200

\* the granularity "mois\n" answered by year
NewlineAnsweredByYear ==
    /\ Routed
    /\ resp.endpoint = "get_evolution_temporelle"
    /\ resp.params.periode = "mois\n"
    /\ resp.status = 200
    /\ \E k \in 1..Len(resp.body.data) : Len(resp.body.data[k].periode) = 1

----------------------------------------------------------------------------
(* get_bcg_matrix on a table of fewer than two years.                      *)

BcgRequested == resp.endpoint = "get_bcg_matrix"

\* C22: on a table of fewer than two distinct years get_bcg_matrix answers
\* with the marker of insufficient data and an empty data list, and with
\* nothing computed: no thresholds, no quadrant counts; on a table of two
\* years or more the marker is absent.
C22_InsufficientYears ==
    BcgRequested =>
        IF Cardinality(YearSet) < 2
        THEN /\ resp.error # ""
             /\ resp.data = <<>>
             /\ DOMAIN resp = {"endpoint", "limite", "error", "data"}
        ELSE /\ resp.error = ""
             /\ {"seuils", "repartition"} \subseteq DOMAIN resp

\* a table whose order lines are all of one year, answered
C22_Witness ==
    /\ BcgRequested
    /\ Cardinality(YearSet) = 1
    /\ Len(df) >= 2
    /\ resp.error # ""

----------------------------------------------------------------------------
(* get_delai_rachat on a table without repurchase.                         *)

DelaiRachatAnswered == resp.endpoint = "get_delai_rachat"

\* no customer has orders on two different dates
NoRepurchase ==
    \A i, j \in 1..Len(df) : df[i].cid = df[j].cid => df[i].odate = df[j].odate

\* the keys of an answer that was computed from repurchases
ComputedKeys == {"statistiques", "par_segment", "distribution"}

\* C23: without repurchase get_delai_rachat answers with zero statistics, an
\* empty per-segment list, an empty distribution and a marker, a key that
\* a computed answer does not have.
C23_NoRepurchaseMarked ==
    (DelaiRachatAnswered /\ NoRepurchase) =>
        /\ resp.body.statistiques = [delai_moyen_jours |-> Zero,
                                     delai_median_jours |-> Zero,
                                     nb_rachats_total |-> 0]
        /\ resp.body.par_segment = <<>>
        /\ resp.body.distribution = <<>>
        /\ DOMAIN resp.body \ ComputedKeys # {}

\* without repurchase the answer is the zero answer, of the same keys as a
\* computed one; with repurchases every delay is counted in one bracket
ZeroAnswerWithoutRepurchase ==
    DelaiRachatAnswered =>
        /\ DOMAIN resp.body = ComputedKeys
        /\ NoRepurchase <=> resp.body.statistiques.nb_rachats_total = 0
        /\ NoRepurchase =>
               /\ resp.body.statistiques.delai_moyen_jours = Zero
               /\ resp.body.statistiques.delai_median_jours = Zero
               /\ resp.body.par_segment = <<>>
               /\ resp.body.distribution = <<>>
        /\ ~NoRepurchase =>
               /\ Gt(resp.body.statistiques.delai_moyen_jours, Zero)
               /\ SumSeq(resp.body.distribution, LAMBDA b : b.n)
                      = resp.body.statistiques.nb_rachats_total

\* customers with two orders on the same day only
SameDayOrdersOnly ==
    /\ DelaiRachatAnswered
    /\ NoRepurchase
    /\ \E i, j \in 1..Len(df) : i # j /\ df[i].cid = df[j].cid

----------------------------------------------------------------------------
(* The orders in deficit.                                                  *)

DeficitAnswered == resp.endpoint = "get_commandes_deficitaires"

OrderSet == {df[i].oid : i \in 1..Len(df)}

OrderProfit(o) ==
    LET I == {i \in 1..Len(df) : df[i].oid = o} IN SumOver(I, [i \in I |-> df[i].profit])

OrderSales(o) ==
    LET I == {i \in 1..Len(df) : df[i].oid = o} IN SumOver(I, [i \in I |-> df[i].sales])

DeficitOrders == {o \in OrderSet : OrderProfit(o) < 0}

ReturnedOrders == {resp.data[i].order_id : i \in 1..Len(resp.data)}

\* the orders A (100, 20), B (200, -10) and C (50, 5), one line each
ScenarioABC ==
    /\ Len(df) = 3
    /\ \A k \in 1..3 : df[k].oid = k
    /\ <<df[1].sales, df[1].profit>> = <<100, 20>>
    /\ <<df[2].sales, df[2].profit>> = <<200, 0 - 10>>
    /\ <<df[3].sales, df[3].profit>> = <<50, 5>>

\* no filter in the request of get_kpi_globaux
Unfiltered ==
    /\ resp.filtres.date_debut = NoDate /\ resp.filtres.date_fin = NoDate
    /\ resp.filtres.categorie = "" /\ resp.filtres.region = ""
    /\ resp.filtres.segment = ""

\* the records are those of orders in deficit, each with the sums of its
\* order, the most negative first
DeficitRecordsRanked ==
    /\ Cardinality(ReturnedOrders) = Len(resp.data)
    /\ ReturnedOrders \subseteq DeficitOrders
    /\ \A i \in 1..Len(resp.data) :
           /\ resp.data[i].profit = FromInt(OrderProfit(resp.data[i].order_id))
           /\ resp.data[i].ca = FromInt(OrderSales(resp.data[i].order_id))
    /\ \A i \in 1..Len(resp.data) - 1 : Le(resp.data[i].profit, resp.data[i + 1].profit)

\* C26 as stated: get_commandes_deficitaires returns exactly the orders of
\* negative summed profit, most negative first; on the orders A, B and C
\* get_kpi_globaux gives sales 350, profit 15 and margin 15 / 350 * 100.
C26_AllDeficitOrders ==
    /\ DeficitAnswered => (DeficitRecordsRanked /\ ReturnedOrders = DeficitOrders)
    /\ (resp.endpoint = "get_kpi_globaux" /\ ScenarioABC /\ Unfiltered) =>
           /\ resp.ca_total = FromInt(350)
           /\ resp.profit_total = FromInt(15)
           /\ resp.marge_moyenne = Frac(15 * 100, 350)

\* C26 amended: get_commandes_deficitaires returns the min(limite, D) most
\* negative of the D orders of negative summed profit, most negative first,
\* and never an order of profit 0 or more; on the orders A, B and C it
\* returns only B, and get_kpi_globaux gives sales 350, profit 15 and the
\* margin 15 / 350 * 100 rounded to two decimals.
C26_DeficitOrdersUpToLimit ==
    /\ DeficitAnswered =>
           /\ DeficitRecordsRanked
           /\ Len(resp.data) = MinOf(resp.limite, Cardinality(DeficitOrders))
           /\ \A o \in DeficitOrders \ ReturnedOrders : \A i \in 1..Len(resp.data) :
                  Le(resp.data[i].profit, FromInt(OrderProfit(o)))
           /\ ScenarioABC => ReturnedOrders = {2}
    /\ (resp.endpoint = "get_kpi_globaux" /\ ScenarioABC /\ Unfiltered) =>
           /\ resp.ca_total = FromInt(350)
           /\ resp.profit_total = FromInt(15)
           /\ resp.loc.marge_moyenne = Frac(15 * 100, 350)
           /\ resp.marge_moyenne = Round(Frac(15 * 100, 350), 2)

\* the orders A, B and C answered with B alone
C26_Witness ==
    /\ DeficitAnswered
    /\ ScenarioABC
    /\ Len(resp.data) = 1
    /\ resp.data[1].order_id = 2
    /\ resp.data[1].profit = FromInt(0 - 10)

\* an order of profit 0 next to orders in deficit
ZeroProfitOrderLeftOut ==
    /\ DeficitAnswered
    /\ \E o \in OrderSet : OrderProfit(o) = 0
    /\ resp.data # <<>>

\* more orders in deficit than limite
MoreDeficitThanLimite ==
    /\ DeficitAnswered
    /\ Cardinality(DeficitOrders) > resp.limite

----------------------------------------------------------------------------
(* The statistics of the orders in deficit.                                *)

DeficitLoss ==
    Abs(SumOver(DeficitOrders, [o \in DeficitOrders |-> OrderProfit(o)]))

\* C27: perte_totale is the absolute sum of the profits of all the orders
\* counted by nb_commandes_deficitaires, and perte_moyenne is perte_totale
\* divided by that count, for every limite and every table.
C27_DeficitStatisticsConsistent ==
    DeficitAnswered =>
        /\ resp.statistiques.nb_commandes_deficitaires = Cardinality(DeficitOrders)
        /\ resp.statistiques.perte_totale = Round(FromInt(DeficitLoss), 2)
        /\ resp.statistiques.perte_moyenne =
               IF DeficitOrders = {} THEN Zero
               ELSE Round(Frac(DeficitLoss, Cardinality(DeficitOrders)), 2)

\* the same statistics when every order in deficit is among the records
StatisticsOfAllRecords ==
    (DeficitAnswered /\ Cardinality(DeficitOrders) <= resp.limite) =>
        /\ resp.statistiques.nb_commandes_deficitaires = Cardinality(DeficitOrders)
        /\ resp.statistiques.perte_totale = Round(FromInt(DeficitLoss), 2)
        /\ resp.statistiques.perte_moyenne =
               IF DeficitOrders = {} THEN Zero
               ELSE Round(Frac(DeficitLoss, Cardinality(DeficitOrders)), 2)

----------------------------------------------------------------------------
(* The distribution of the delivery delays.                                *)

DelaisAnswered == resp.endpoint = "get_delais_livraison"

BucketCount(label) ==
    LET k == CHOOSE j \in 1..Len(resp.distribution) : resp.distribution[j].tranche = label
    IN  resp.distribution[k].n

BucketTotal ==
    SumOver(1..Len(resp.distribution),
            [k \in 1..Len(resp.distribution) |-> resp.distribution[k].n])

RowsWithDelay(lo, hi) ==
    Cardinality({i \in 1..Len(df) : lo <= DelaiLivraison(df[i]) /\ DelaiLivraison(df[i]) <= hi})

\* C28: when every delay is between 0 and 999 days the bucket counts add up
\* to the number of rows, and the shipments of the same day are counted in
\* 0-2j with those of 1 and 2 days.
C28_EveryDelayInOneBucket ==
    (DelaisAnswered /\ RowsWithDelay(0, 999) = Len(df)) =>
        /\ BucketTotal = Len(df)
        /\ BucketCount("0-2j") = RowsWithDelay(0, 2)

\* every delay from 1 to 999 days is counted once, an edge of the bins in
\* the bin it closes
PositiveDelaysCountedOnce ==
    DelaisAnswered =>
        /\ BucketTotal = RowsWithDelay(1, 999)
        /\ BucketCount("0-2j") = RowsWithDelay(1, 2)
        /\ BucketCount("2-4j") = RowsWithDelay(3, 4)
        /\ BucketCount("4-7j") = RowsWithDelay(5, 7)
        /\ BucketCount("7-14j") = RowsWithDelay(8, 14)
        /\ BucketCount("14-30j") = RowsWithDelay(15, 30)
        /\ BucketCount(">30j") = RowsWithDelay(31, 999)

\* a shipment of the same day in the table of an answer
SameDayShipmentAnswered ==
    /\ DelaisAnswered
    /\ RowsWithDelay(0, 0) > 0

----------------------------------------------------------------------------
(* The classes of the ABC analysis along the sort order.                   *)

ClassRank(classe) == IF classe = "A" THEN 1 ELSE IF classe = "B" THEN 2 ELSE 3

\* no B or C record precedes an A record, no C record precedes a B record
ClassesFollowSortOrder ==
    (AbcAnswered /\ AbcTotal > 0) =>
        \A i \in 1..Len(resp.data) - 1 :
            ClassRank(resp.data[i].classe) <= ClassRank(resp.data[i + 1].classe)

\* C29: for a non-empty record set of positive total and non-negative
\* values the classes follow the sort order and the first record, that of
\* the largest value, is in class A, so that class A is not empty.
C29_LargestRecordInClassA ==
    (AbcAnswered /\ AbcTotal > 0) =>
        /\ ClassesFollowSortOrder
        /\ resp.data[1].classe = "A"

\* the first record is in class A when its own share, rounded, is at most
\* 80 percent, and in no other case
FirstRecordInClassAUpTo80 ==
    (AbcAnswered /\ AbcTotal > 0) =>
        (resp.data[1].classe = "A" <=> Le(resp.data[1].pct_ca, FromInt(80)))

\* a single record of positive value, classed C
SingleRecordClassedC ==
    /\ AbcAnswered
    /\ AbcTotal > 0
    /\ Len(resp.data) = 1
    /\ resp.data[1].classe = "C"

\* a first record of more than 80 percent of the total, no record in A
NoRecordInClassA ==
    /\ AbcAnswered
    /\ Len(resp.data) > 1
    /\ 100 * AbcCumul(1) > 80 * AbcTotal
    /\ \A i \in 1..Len(resp.data) : resp.data[i].classe # "A"

----------------------------------------------------------------------------
(* The cohorts of get_taux_retention.                                      *)

\* the customers whose first order is in month c
CohortMembers(c) == {x \in CustomerSet : FirstMonthOf(x) = c}

\* the customers of cohort c with an order q months after month c
ActiveMembers(c, q) ==
    {x \in CohortMembers(c) : \E i \in CustomerLines(x) : OrderMonth(df[i].odate) = c + q}

\* the months elapsed between the first order of a customer and each order
ElapsedSet ==
    {OrderMonth(df[i].odate) - FirstMonthOf(df[i].cid) : i \in 1..Len(df)}

\* C30: the cohorts partition the customers, months elapsed are never
\* negative, the divisor of a cohort is the count of its customers at month
\* zero and is not zero, the customers active at any months elapsed are
\* among those of month zero, and every cell of the matrix is between 0 and
\* 100.
C30_RetentionCellsWithinBounds ==
    RetentionAnswered =>
        /\ DOMAIN resp.cohort_pivot = CohortSet
        /\ Range(resp.columns) = ElapsedSet
        /\ resp.columns[1] = 0
        /\ \A k \in 1..Len(resp.columns) : resp.columns[k] >= 0
        /\ SumOver(CohortSet, [c \in CohortSet |-> resp.cohort_pivot[c][0]])
               = Cardinality(CustomerSet)
        /\ \A c \in CohortSet :
               /\ resp.cohort_pivot[c][0] = Cardinality(CohortMembers(c))
               /\ resp.cohort_pivot[c][0] > 0
               /\ \A q \in ElapsedSet :
                      /\ resp.cohort_pivot[c][q] = Cardinality(ActiveMembers(c, q))
                      /\ resp.cohort_pivot[c][q] <= resp.cohort_pivot[c][0]
                      /\ resp.retention_matrix[c][q] =
                             Frac(resp.cohort_pivot[c][q] * 100, resp.cohort_pivot[c][0])
                      /\ Ge(resp.retention_matrix[c][q], Zero)
                      /\ Le(resp.retention_matrix[c][q], FromInt(100))

\* a cohort of two customers of whom one has an order 13 months later,
\* beside a cohort without any order at that distance
C30_Witness ==
    /\ RetentionAnswered
    /\ \E c, e \in CohortSet :
           /\ resp.cohort_pivot[c][0] = 2
           /\ 13 \in ElapsedSet
           /\ resp.cohort_pivot[c][13] = 1
           /\ resp.retention_matrix[c][13] = FromInt(50)
           /\ resp.retention_matrix[e][13] = Zero

----------------------------------------------------------------------------
(* The store over the life of the process.                                 *)

RequestAnswered == resp.endpoint \notin {"none", "load_data"}

CommandesAnswered == resp.endpoint = "get_commandes"

\* a day number as year, month and day
YearMonthDay(day) == <<YearOf(day), MonthOf(day), CivilFromDays(day).d>>

\* the lines of the store that a page of get_commandes shows
PageLines == {i \in 1..Len(df) : resp.offset < i /\ i <= resp.offset + resp.limite}

SourceFails(source) == ~source.reachable \/ source.missing # ""

\* every line of the source that has its required fields, in the order of
\* the source, with the columns computed at load
CompleteTable(source) ==
    LET kept == SelectSeq(source.rows, LAMBDA r : Absent \notin {r.oid, r.cid, r.sales})
    IN  [i \in 1..Len(kept) |->
            [f \in DOMAIN kept[i] \union {"Year", "Month", "YearMonth", "Marge_Pct"} |->
                IF f = "Year" THEN YearOf(kept[i].odate)
                ELSE IF f = "Month" THEN MonthOf(kept[i].odate)
                ELSE IF f = "YearMonth"
                     THEN <<YearOf(kept[i].odate), MonthOf(kept[i].odate)>>
                ELSE IF f = "Marge_Pct"
                     THEN (IF kept[i].sales = 0 THEN Zero
                           ELSE Frac(kept[i].profit * 100, kept[i].sales))
                ELSE kept[i][f]]]

LoadFailed == resp.endpoint = "load_data" /\ resp.raised

\* C25: load_data runs once, from the initial state, before any request is
\* answered; when the source cannot be read or lacks a required column it
\* raises, df stays unbound and the process takes no further step, so no
\* request is answered; otherwise df is the complete cleaned table of the
\* source, and only then are requests answered.
C25_LoadedOnceBeforeServing ==
    /\ [](RequestAnswered => ModuleImported)
    /\ [][resp'.endpoint = "load_data" => (df = Unbound /\ resp = NoResponse)]_vars
    /\ [][resp'.endpoint = "load_data" =>
            IF SourceFails(resp'.source)
            THEN resp'.raised /\ df' = Unbound
            ELSE ~resp'.raised /\ df' = CompleteTable(resp'.source)]_vars
    /\ [][~LoadFailed]_vars

\* the load of a source without its Sales column has raised
C25_Witness ==
    /\ LoadFailed
    /\ resp.source.reachable
    /\ resp.source.missing = "Sales"
    /\ resp.source.rows # <<>>
    /\ df = Unbound

\* a request answered from the table of a source with a line that lacks
\* its Order ID
AnsweredFromCleanedTable ==
    /\ RequestAnswered
    /\ Len(df) = 1
    /\ df[1].oid = 2

====
